---- MODULE Spec2Model ----
(***************************************************************************)
(* Model of sharpy.linear.src.libsparse (dense/sparse dispatch layer) and  *)
(* sharpy.linear.src.libss (state-space models and their interconnection). *)
(*                                                                         *)
(* Numbers are exact: a number is <<re, im, den>>, the complex rational    *)
(* (re + i*im)/den with den > 0, or the non-finite value <<0,0,0>> (what   *)
(* numpy writes as nan/inf).  Floating-point rounding is abstracted away;  *)
(* representation (type), shape and control flow are modelled as the code  *)
(* and the numpy/scipy calls it makes behave.                              *)
(*                                                                         *)
(* An array is [t, sh, v, err]: t is the Python type name ("ndarray",      *)
(* "csc_matrix" = libsparse.csc_matrix, "csr_matrix" = scipy's csr, and    *)
(* "matrix" = numpy.matrix), sh the shape (<<n>> or <<r, c>>), v the       *)
(* entries.  A raised exception is the value with t = "raise" and err the  *)
(* exception's class name.                                                 *)
(***************************************************************************)
EXTENDS Integers, Sequences, FiniteSets, TLC

VARIABLES heap, models, call

vars == <<heap, models, call>>

(***************************************************************************)
(* Bounds of the model                                                     *)
(***************************************************************************)
MaxDim == 2

MaxSeed == 3

(***************************************************************************)
(* Exact arithmetic                                                        *)
(***************************************************************************)
AbsInt(a) == IF a < 0 THEN 0 - a ELSE a

RECURSIVE Gcd(_, _)
Gcd(a, b) == IF b = 0 THEN a ELSE Gcd(b, a % b)

NaN == <<0, 0, 0>>

IsNaN(x) == x[3] = 0

Norm(re, im, den) ==
  IF den = 0 THEN NaN
  ELSE LET s == IF den < 0 THEN 0 - 1 ELSE 1
           g == Gcd(Gcd(AbsInt(re), AbsInt(im)), AbsInt(den))
       IN  <<(s * re) \div g, (s * im) \div g, (s * den) \div g>>

Num(n) == <<n, 0, 1>>

Zero == Num(0)

One == Num(1)

NAdd(x, y) ==
  IF IsNaN(x) \/ IsNaN(y) THEN NaN
  ELSE Norm(x[1] * y[3] + y[1] * x[3], x[2] * y[3] + y[2] * x[3], x[3] * y[3])

NNeg(x) == IF IsNaN(x) THEN NaN ELSE <<0 - x[1], 0 - x[2], x[3]>>

NSub(x, y) == NAdd(x, NNeg(y))

NMul(x, y) ==
  IF IsNaN(x) \/ IsNaN(y) THEN NaN
  ELSE Norm(x[1] * y[1] - x[2] * y[2], x[1] * y[2] + x[2] * y[1], x[3] * y[3])

\* x / y; a zero divisor gives a non-finite value, as numpy float division does
NDiv(x, y) ==
  IF IsNaN(x) \/ IsNaN(y) THEN NaN
  ELSE LET m == y[1] * y[1] + y[2] * y[2]
       IN  Norm((x[1] * y[1] + x[2] * y[2]) * y[3],
                (x[2] * y[1] - x[1] * y[2]) * y[3],
                x[3] * m)

(***************************************************************************)
(* Arrays                                                                  *)
(***************************************************************************)
\* the tuple <<f[1], ..., f[n]>>
RECURSIVE SeqOf(_, _)
SeqOf(f, n) == IF n = 0 THEN <<>> ELSE Append(SeqOf(f, n - 1), f[n])

\* the entries v of an array of shape sh, as a tuple (of tuples)
Entries(v, sh) ==
  IF Len(sh) = 1 THEN SeqOf(v, sh[1])
  ELSE SeqOf([i \in 1..sh[1] |-> SeqOf(v[i], sh[2])], sh[1])

Arr(t, sh, v) == [t |-> t, sh |-> sh, v |-> Entries(v, sh), err |-> ""]

Raise(e) == [t |-> "raise", sh |-> <<>>, v |-> <<>>, err |-> e]

IsErr(M) == M.t = "raise"

NDim(M) == Len(M.sh)

RECURSIVE SumTo(_, _)
SumTo(f, n) == IF n = 0 THEN Zero ELSE NAdd(SumTo(f, n - 1), f[n])

(***************************************************************************)
(* numpy / scipy.sparse operations the two modules call                    *)
(***************************************************************************)
IsSparse(M) == M.t \in {"csc_matrix", "csr_matrix"}

Mul22(a, b, r, n, c) ==
  [i \in 1..r |-> [j \in 1..c |-> SumTo([k \in 1..n |-> NMul(a[i][k], b[k][j])], n)]]

Mul21(a, x, r, n) == [i \in 1..r |-> SumTo([k \in 1..n |-> NMul(a[i][k], x[k])], n)]

Mul12(x, b, n, c) == [j \in 1..c |-> SumTo([k \in 1..n |-> NMul(x[k], b[k][j])], n)]

\* M.transpose(): a csc matrix transposes to scipy's csr, a 1-D array to itself
Transpose(M) ==
  IF IsErr(M) THEN M
  ELSE IF NDim(M) # 2 THEN M
  ELSE Arr(IF M.t = "csc_matrix" THEN "csr_matrix"
           ELSE IF M.t = "csr_matrix" THEN "csc_matrix" ELSE M.t,
           <<M.sh[2], M.sh[1]>>,
           [j \in 1..M.sh[2] |-> [i \in 1..M.sh[1] |-> M.v[i][j]]])

\* numpy.ndarray.dot of two arrays
NpDot(A, B) ==
  IF NDim(A) = 2 /\ NDim(B) = 2
  THEN IF A.sh[2] # B.sh[1] THEN Raise("ValueError")
       ELSE Arr("ndarray", <<A.sh[1], B.sh[2]>>, Mul22(A.v, B.v, A.sh[1], A.sh[2], B.sh[2]))
  ELSE IF NDim(A) = 2 /\ NDim(B) = 1
  THEN IF A.sh[2] # B.sh[1] THEN Raise("ValueError")
       ELSE Arr("ndarray", <<A.sh[1]>>, Mul21(A.v, B.v, A.sh[1], A.sh[2]))
  ELSE IF NDim(A) = 1 /\ NDim(B) = 2
  THEN IF A.sh[1] # B.sh[1] THEN Raise("ValueError")
       ELSE Arr("ndarray", <<B.sh[2]>>, Mul12(A.v, B.v, B.sh[1], B.sh[2]))
  ELSE Raise("ValueError")

\* scipy.sparse: A.dot(B) for a sparse A.  A sparse B gives A's class, a dense
\* 1-D B of length N a 1-D array, a dense 2-D B a 2-D array.
SpDot(A, B) ==
  IF IsSparse(B)
  THEN IF A.sh[2] # B.sh[1] THEN Raise("ValueError")
       ELSE Arr(A.t, <<A.sh[1], B.sh[2]>>, Mul22(A.v, B.v, A.sh[1], A.sh[2], B.sh[2]))
  ELSE IF NDim(B) = 1
  THEN IF B.sh[1] # A.sh[2] THEN Raise("ValueError")
       ELSE Arr("ndarray", <<A.sh[1]>>, Mul21(A.v, B.v, A.sh[1], A.sh[2]))
  ELSE IF NDim(B) = 2
  THEN IF A.sh[2] # B.sh[1] THEN Raise("ValueError")
       ELSE Arr(B.t, <<A.sh[1], B.sh[2]>>, Mul22(A.v, B.v, A.sh[1], A.sh[2], B.sh[2]))
  ELSE Raise("ValueError")

\* Python's A.dot(B): the method of A's class.  To numpy.ndarray.dot a sparse
\* B is a scalar object: the result is an array of A's shape whose entries
\* (the products of A's entries with B) are no numbers.
MethodDot(A, B) ==
  IF IsErr(A) THEN A
  ELSE IF IsErr(B) THEN B
  ELSE IF IsSparse(A) THEN SpDot(A, B)
  ELSE IF IsSparse(B)
  THEN Arr("ndarray", A.sh,
           IF NDim(A) = 1 THEN [i \in 1..A.sh[1] |-> NaN]
           ELSE [i \in 1..A.sh[1] |-> [j \in 1..A.sh[2] |-> NaN]])
  ELSE NpDot(A, B)

\* libsparse.csc_matrix(C): a 1-D array becomes a matrix of one row
csc_matrix(C) ==
  IF IsErr(C) THEN C
  ELSE IF NDim(C) = 1 THEN Arr("csc_matrix", <<1, C.sh[1]>>, <<C.v>>)
  ELSE Arr("csc_matrix", C.sh, C.v)

\* C.todense(): libsparse.csc_matrix returns a numpy.ndarray, scipy's own
\* classes a numpy.matrix; a numpy.ndarray has no such method
todense(C) ==
  IF IsErr(C) THEN C
  ELSE IF C.t = "csc_matrix" THEN Arr("ndarray", C.sh, C.v)
  ELSE IF C.t = "csr_matrix" THEN Arr("matrix", C.sh, C.v)
  ELSE Raise("AttributeError")

\* -M
Neg(M) ==
  IF IsErr(M) THEN M
  ELSE IF NDim(M) = 1 THEN Arr(M.t, M.sh, [i \in 1..M.sh[1] |-> NNeg(M.v[i])])
  ELSE Arr(M.t, M.sh, [i \in 1..M.sh[1] |-> [j \in 1..M.sh[2] |-> NNeg(M.v[i][j])]])

(***************************************************************************)
(* Direct solution of a . x = b (numpy.linalg.solve, scipy's spsolve)      *)
(***************************************************************************)
Minor(a, n, p, q) ==
  [i \in 1..(n - 1) |-> [j \in 1..(n - 1) |->
      a[IF i < p THEN i ELSE i + 1][IF j < q THEN j ELSE j + 1]]]

RECURSIVE Det(_, _)
Det(a, n) ==
  IF n = 1 THEN a[1][1]
  ELSE SumTo([j \in 1..n |->
                NMul(IF j % 2 = 1 THEN a[1][j] ELSE NNeg(a[1][j]),
                     Det(Minor(a, n, 1, j), n - 1))], n)

ReplaceCol(a, n, k, col) ==
  [i \in 1..n |-> [j \in 1..n |-> IF j = k THEN col[i] ELSE a[i][j]]]

\* the n x c solution of a . x = b for a nonsingular a (Cramer's rule)
LinSolve(a, n, b, c) ==
  LET d == Det(a, n)
  IN  [i \in 1..n |-> [j \in 1..c |->
         NDiv(Det(ReplaceCol(a, n, i, [k \in 1..n |-> b[k][j]]), n), d)]]

Singular(A) == Det(A.v, A.sh[1]) = Zero

AsColumn(b) == [k \in 1..b.sh[1] |-> <<b.v[k]>>]

Ravel(x, n) == [i \in 1..n |-> x[i][1]]

NaNs(r, c) == [i \in 1..r |-> [j \in 1..c |-> NaN]]

\* numpy.linalg.solve(A, b) of arrays: a 2-D b gives a 2-D x, a 1-D b a 1-D x;
\* a singular A raises LinAlgError
NpSolve(A, b) ==
  IF IsErr(A) THEN A
  ELSE IF IsErr(b) THEN b
  ELSE IF NDim(A) # 2 \/ A.sh[1] # A.sh[2] THEN Raise("LinAlgError")
  ELSE IF b.sh[1] # A.sh[1] THEN Raise("ValueError")
  ELSE IF Singular(A) THEN Raise("LinAlgError")
  ELSE IF NDim(b) = 1
  THEN Arr("ndarray", b.sh, Ravel(LinSolve(A.v, A.sh[1], AsColumn(b), 1), A.sh[1]))
  ELSE Arr("ndarray", b.sh, LinSolve(A.v, A.sh[1], b.v, b.sh[2]))

\* scipy.sparse.linalg.spsolve(A, b) for a sparse A.  A right-hand side of
\* shape (n,) or (n, 1) is a vector and the solution is a 1-D array; a dense
\* matrix b gives a 2-D array; a sparse matrix b gives a matrix of A's class.
\* A singular A gives a warning and non-finite entries on the dense path and
\* RuntimeError (from the factorisation) on the sparse path.
SpSolve(A, b) ==
  IF A.sh[1] # A.sh[2] THEN Raise("ValueError")
  ELSE IF b.sh[1] # A.sh[1] THEN Raise("ValueError")
  ELSE IF NDim(b) = 1
  THEN Arr("ndarray", b.sh,
           IF Singular(A) THEN [i \in 1..b.sh[1] |-> NaN]
           ELSE Ravel(LinSolve(A.v, A.sh[1], AsColumn(b), 1), A.sh[1]))
  ELSE IF b.sh[2] = 1
  THEN Arr("ndarray", <<b.sh[1]>>,
           IF Singular(A) THEN [i \in 1..b.sh[1] |-> NaN]
           ELSE Ravel(LinSolve(A.v, A.sh[1], b.v, 1), A.sh[1]))
  ELSE IF ~IsSparse(b)
  THEN Arr("ndarray", b.sh,
           IF Singular(A) THEN NaNs(b.sh[1], b.sh[2])
           ELSE LinSolve(A.v, A.sh[1], b.v, b.sh[2]))
  ELSE IF Singular(A) THEN Raise("RuntimeError")
  ELSE Arr(A.t, b.sh, LinSolve(A.v, A.sh[1], b.v, b.sh[2]))

(***************************************************************************)
(* libsparse                                                               *)
(***************************************************************************)
SupportedTypes == {"ndarray", "csc_matrix"}

\* the "format output" step of dot: C is the product, tA the type of A
dot_format(C, tA, type_out) ==
  IF IsErr(C) THEN C
  ELSE IF tA # type_out
  THEN IF type_out = "csc_matrix" THEN csc_matrix(C) ELSE todense(C)
  ELSE C

\* libsparse.dot(A, B, type_out); type_out = "None" when omitted
dot(A, B, type_out) ==
  IF IsErr(A) THEN A
  ELSE IF IsErr(B) THEN B
  ELSE IF A.t \notin SupportedTypes THEN Raise("AssertionError")
  ELSE IF B.t \notin SupportedTypes THEN Raise("AssertionError")
  ELSE IF type_out # "None" /\ type_out \notin SupportedTypes THEN Raise("AssertionError")
  ELSE dot_format(IF A.t = "ndarray" /\ B.t = "csc_matrix"
                  THEN Transpose(MethodDot(Transpose(B), Transpose(A)))
                  ELSE MethodDot(A, B),
                  A.t,
                  IF type_out = "None" THEN A.t ELSE type_out)

\* the last assertion of solve, on the type of the solution x
solve_return(x) ==
  IF IsErr(x) THEN x
  ELSE IF x.t \notin SupportedTypes THEN Raise("AssertionError")
  ELSE x

\* libsparse.solve(A, b)
solve(A, b) ==
  IF IsErr(A) THEN A
  ELSE IF IsErr(b) THEN b
  ELSE IF A.t \notin SupportedTypes THEN Raise("AssertionError")
  ELSE IF b.t \notin SupportedTypes THEN Raise("AssertionError")
  ELSE solve_return(IF A.t = "ndarray"
                    THEN NpSolve(A, IF b.t = "csc_matrix" THEN todense(b) ELSE b)
                    ELSE SpSolve(A, b))

\* libsparse.dense(M)
dense(M) ==
  IF IsErr(M) THEN M
  ELSE IF M.t = "csc_matrix" THEN Arr("ndarray", M.sh, M.v)
  ELSE M

\* eye_as without the assertion that M is square
eye_as_unchecked(M) ==
  IF IsErr(M) THEN M
  ELSE IF M.t \notin SupportedTypes THEN Raise("AssertionError")
  ELSE IF NDim(M) < 2 THEN Raise("IndexError")
  ELSE Arr(M.t, <<M.sh[1], M.sh[1]>>,
           [i \in 1..M.sh[1] |-> [j \in 1..M.sh[1] |-> IF i = j THEN One ELSE Zero]])

\* libsparse.eye_as(M)
eye_as(M) ==
  IF IsErr(M) THEN M
  ELSE IF M.t \notin SupportedTypes THEN Raise("AssertionError")
  ELSE IF NDim(M) < 2 THEN Raise("IndexError")
  ELSE IF M.sh[1] # M.sh[2] THEN Raise("AssertionError")
  ELSE Arr(M.t, <<M.sh[1], M.sh[1]>>,
           [i \in 1..M.sh[1] |-> [j \in 1..M.sh[1] |-> IF i = j THEN One ELSE Zero]])

(***************************************************************************)
(* Elementwise operators with numpy broadcasting                           *)
(***************************************************************************)
Rows(M) == IF NDim(M) = 2 THEN M.sh[1] ELSE 1

Cols(M) == IF NDim(M) = 2 THEN M.sh[2] ELSE M.sh[1]

\* entry (i, j) of M read as a 2-D array (a 1-D array is a single row),
\* dimensions of length one being stretched
At(M, i, j) ==
  LET ii == IF Rows(M) = 1 THEN 1 ELSE i
      jj == IF Cols(M) = 1 THEN 1 ELSE j
  IN  IF NDim(M) = 2 THEN M.v[ii][jj] ELSE M.v[jj]

Broadcastable(X, Y) ==
  /\ (Rows(X) = Rows(Y) \/ Rows(X) = 1 \/ Rows(Y) = 1)
  /\ (Cols(X) = Cols(Y) \/ Cols(X) = 1 \/ Cols(Y) = 1)

MaxOf(a, b) == IF a < b THEN b ELSE a

\* x (op) y for the operator op of Python
BinOp(op, x, y) ==
  IF op = "+" THEN NAdd(x, y)
  ELSE IF op = "-" THEN NSub(x, y)
  ELSE IF op = "*" THEN NMul(x, y)
  ELSE NDiv(x, y)

\* X (op) Y on numpy arrays
NpElementwise(X, Y, op) ==
  IF ~Broadcastable(X, Y) THEN Raise("ValueError")
  ELSE LET r == MaxOf(Rows(X), Rows(Y))
           c == MaxOf(Cols(X), Cols(Y))
       IN  IF NDim(X) = 1 /\ NDim(Y) = 1
           THEN Arr("ndarray", <<c>>, [j \in 1..c |-> BinOp(op, At(X, 1, j), At(Y, 1, j))])
           ELSE Arr("ndarray", <<r, c>>,
                    [i \in 1..r |-> [j \in 1..c |->
                       BinOp(op, At(X, i, j), At(Y, i, j))]])

\* X + Y and X - Y.  Two sparse operands need equal shapes and give the
\* left operand's class; a libsparse.csc_matrix and an array give an array
\* (the sparse operand's todense() and the array are combined by numpy).
Elementwise(X, Y, op) ==
  IF IsErr(X) THEN X
  ELSE IF IsErr(Y) THEN Y
  ELSE IF IsSparse(X) /\ IsSparse(Y)
  THEN IF X.sh # Y.sh THEN Raise("ValueError")
       ELSE Arr(X.t, X.sh,
                [i \in 1..X.sh[1] |-> [j \in 1..X.sh[2] |->
                   BinOp(op, X.v[i][j], Y.v[i][j])]])
  ELSE NpElementwise(X, Y, op)

Plus(X, Y) == Elementwise(X, Y, "+")

Minus(X, Y) == Elementwise(X, Y, "-")

(***************************************************************************)
(* Caller-supplied matrices                                                *)
(***************************************************************************)
Dims == 1..MaxDim

Seeds == 0..MaxSeed

\* the Python types a caller may pass
Kinds == {"ndarray", "csc_matrix", "matrix"}

\* entry (i, j) of the matrix of seed s; seed 0 is the zero matrix
Val(s, i, j) ==
  IF s = 0 THEN 0
  ELSE (((s * i * i) + (s + 1) * j + i * j * j) % 5) - 2

Gen(t, s, r, c) ==
  Arr(t, <<r, c>>, [i \in 1..r |-> [j \in 1..c |-> Num(Val(s, i, j))]])

None == [t |-> "None", sh |-> <<>>, v |-> <<>>, err |-> ""]

(***************************************************************************)
(* Calls of the dispatch layer                                             *)
(***************************************************************************)
InitLA ==
  /\ heap = <<>>
  /\ models = <<>>
  /\ call = [op |-> "none"]

CallDot ==
  /\ call.op = "none"
  /\ \E ta \in Kinds, tb \in Kinds, tout \in Kinds \cup {"None"},
     sa \in Seeds, sb \in Seeds, r \in Dims, n \in Dims, m \in Dims, c \in Dims :
    LET A == Gen(ta, sa, r, n)
        B == Gen(tb, sb, m, c)
    IN  /\ call' = [op |-> "dot", A |-> A, B |-> B, type_out |-> tout,
                    ret |-> dot(A, B, tout)]
        /\ UNCHANGED <<heap, models>>

CallSolve ==
  /\ call.op = "none"
  /\ \E ta \in Kinds, tb \in Kinds,
     sa \in Seeds, sb \in Seeds, r \in Dims, n \in Dims, m \in Dims, c \in Dims :
    LET A == Gen(ta, sa, r, n)
        b == Gen(tb, sb, m, c)
    IN  /\ call' = [op |-> "solve", A |-> A, B |-> b, type_out |-> "None",
                    ret |-> solve(A, b)]
        /\ UNCHANGED <<heap, models>>

CallEyeAs ==
  /\ call.op = "none"
  /\ \E ta \in Kinds, sa \in Seeds, r \in Dims, n \in Dims :
    LET M == Gen(ta, sa, r, n)
    IN  /\ call' = [op |-> "eye_as", A |-> M, B |-> None, type_out |-> "None",
                    ret |-> eye_as(M)]
        /\ UNCHANGED <<heap, models>>

NextLA == CallDot \/ CallSolve \/ CallEyeAs

SpecLA == InitLA /\ [][NextLA]_vars

(***************************************************************************)
(* Properties of the dispatch layer                                        *)
(***************************************************************************)
Supported(M) == M.t \in SupportedTypes

AllZero(M) ==
  IF NDim(M) = 1 THEN \A j \in 1..M.sh[1] : M.v[j] = Zero
  ELSE \A i \in 1..M.sh[1] : \A j \in 1..M.sh[2] : M.v[i][j] = Zero

\* the comparison the modules' tests make: max |X0 - X| is zero
Agree(X0, X) ==
  LET d == Minus(X0, X)
  IN  ~IsErr(d) /\ AllZero(d)

DotCase ==
  /\ call.op = "dot"
  /\ Supported(call.A) /\ Supported(call.B)
  /\ call.type_out \in SupportedTypes \cup {"None"}
  /\ call.A.sh[2] = call.B.sh[1]

SolveCase ==
  /\ call.op = "solve"
  /\ Supported(call.A) /\ Supported(call.B)
  /\ call.A.sh[1] = call.A.sh[2]
  /\ call.B.sh[1] = call.A.sh[1]
  /\ ~Singular(call.A)

\* C2: for each dense/sparse combination of the operands, dot(A, B) agrees
\* with the dense product and solve(A, b), A nonsingular, with the dense
\* solution, and neither raises
C2_DotSolveAgreeWithDense ==
  /\ (DotCase /\ call.type_out = "None") =>
        /\ ~IsErr(call.ret)
        /\ Agree(NpDot(dense(call.A), dense(call.B)), call.ret)
  /\ SolveCase =>
        /\ ~IsErr(call.ret)
        /\ Agree(NpSolve(dense(call.A), dense(call.B)), call.ret)

\* C3: the result of dot has the left operand's type when type_out is
\* omitted and type_out's otherwise, and no such call raises
C3_DotOutputType ==
  DotCase =>
    /\ ~IsErr(call.ret)
    /\ call.ret.t = (IF call.type_out = "None" THEN call.A.t ELSE call.type_out)

\* C17: for a square M, dense or sparse, eye_as(M) is the identity of
\* dimension rows(M) in M's representation and dot(eye_as(M), M) equals M;
\* for a non-square M eye_as raises
C17_EyeAsIdentity ==
  (call.op = "eye_as" /\ Supported(call.A)) =>
     IF call.A.sh[1] = call.A.sh[2]
     THEN /\ call.ret.t = call.A.t
          /\ call.ret.sh = call.A.sh
          /\ \A i \in 1..call.A.sh[1] : \A j \in 1..call.A.sh[1] :
                call.ret.v[i][j] = (IF i = j THEN One ELSE Zero)
          /\ dot(call.ret, call.A, "None") = call.A
     ELSE IsErr(call.ret)

\* the identity for a sparse 2 x 2 matrix with non-zero entries
C17_Witness ==
  /\ call.op = "eye_as"
  /\ call.A.t = "csc_matrix" /\ call.A.sh = <<2, 2>> /\ ~AllZero(call.A)
  /\ call.ret.t = "csc_matrix"
  /\ dot(call.ret, call.A, "None") = call.A

(***************************************************************************)
(* libss.ss: construction                                                  *)
(***************************************************************************)
\* ss.check_types
check_types(A, B, C, D) ==
  /\ A.t \in SupportedTypes
  /\ B.t \in SupportedTypes
  /\ C.t \in SupportedTypes
  /\ D.t \in SupportedTypes

\* ss.__init__ without the check of D's shape
ssInitErr_noD(A, B, C, D) ==
  IF ~check_types(A, B, C, D) THEN "AssertionError"
  ELSE IF NDim(B) # 2 THEN "ValueError"
  ELSE IF A.sh # <<B.sh[1], B.sh[1]>> THEN "AssertionError"
  ELSE IF NDim(C) < 2 THEN "IndexError"
  ELSE IF C.sh[2] # B.sh[1] THEN "AssertionError"
  ELSE ""

\* the exception ss.__init__ raises on (A, B, C, D), "" when it returns
ssInitErr(A, B, C, D) ==
  IF ~check_types(A, B, C, D) THEN "AssertionError"
  ELSE IF NDim(B) # 2 THEN "ValueError"
  ELSE LET states == B.sh[1]
           inputs == B.sh[2]
           outputs == C.sh[1]
       IN  IF A.sh # <<states, states>> THEN "AssertionError"
           ELSE IF NDim(C) < 2 THEN "IndexError"
           ELSE IF C.sh[2] # states THEN "AssertionError"
           ELSE IF D.sh # <<outputs, inputs>> THEN "AssertionError"
           ELSE ""

\* ss(A, B, C, D, dt): the model (its matrices by value), or the exception
ssInit(A, B, C, D, dt) ==
  IF IsErr(A) THEN A
  ELSE IF IsErr(B) THEN B
  ELSE IF IsErr(C) THEN C
  ELSE IF IsErr(D) THEN D
  ELSE IF ssInitErr(A, B, C, D) # "" THEN Raise(ssInitErr(A, B, C, D))
  ELSE [t |-> "ss", A |-> A, B |-> B, C |-> C, D |-> D, dt |-> dt,
        states |-> B.sh[1], inputs |-> B.sh[2], outputs |-> C.sh[1], err |-> ""]

\* a sample interval is <<>> (None: a continuous-time model) or <<n, d, k>>,
\* the float n/d + k * 1e-11 (k counts perturbations far below n/d)
DtNone == <<>>

Dts == {DtNone, <<1, 5, 0>>}

InitCtor ==
  /\ heap = <<>>
  /\ models = <<>>
  /\ call = [op |-> "none"]

CallSS ==
  /\ call.op = "none"
  /\ \E ta \in Kinds, tb \in Kinds, tc \in Kinds, td \in Kinds, dt \in Dts,
     ra \in Dims, ca \in Dims, rb \in Dims, cb \in Dims,
     rc \in Dims, cc \in Dims, rd \in Dims, cd \in Dims :
    LET A == Gen(ta, 1, ra, ca)
        B == Gen(tb, 2, rb, cb)
        C == Gen(tc, 3, rc, cc)
        D == Gen(td, 1, rd, cd)
    IN  /\ call' = [op |-> "ss", A |-> A, B |-> B, C |-> C, D |-> D, dt |-> dt,
                    ret |-> ssInit(A, B, C, D, dt)]
        /\ UNCHANGED <<heap, models>>

NextCtor == CallSS

SpecCtor == InitCtor /\ [][NextCtor]_vars

\* C4: ss(A, B, C, D, dt) yields a model exactly when the four types are
\* supported and, with (states, inputs) the shape of B and outputs the rows
\* of C, A is states x states, C has states columns and D is outputs x
\* inputs; every other input raises
C4_ConstructionValidates ==
  call.op = "ss" =>
    LET ok == /\ Supported(call.A) /\ Supported(call.B)
              /\ Supported(call.C) /\ Supported(call.D)
              /\ call.A.sh = <<call.B.sh[1], call.B.sh[1]>>
              /\ call.C.sh[2] = call.B.sh[1]
              /\ call.D.sh = <<call.C.sh[1], call.B.sh[2]>>
    IN  /\ ok <=> call.ret.t = "ss"
        /\ ~ok <=> IsErr(call.ret)
        /\ call.ret.t = "ss" =>
             /\ call.ret.A = call.A /\ call.ret.B = call.B
             /\ call.ret.C = call.C /\ call.ret.D = call.D
             /\ call.ret.dt = call.dt
             /\ call.ret.states = call.B.sh[1]
             /\ call.ret.inputs = call.B.sh[2]
             /\ call.ret.outputs = call.C.sh[1]

\* a model was built from matrices of mixed representation
C4_Witness ==
  /\ call.op = "ss"
  /\ call.ret.t = "ss"
  /\ call.A.t = "csc_matrix" /\ call.D.t = "ndarray"
  /\ call.ret.states = 2 /\ call.ret.inputs = 1 /\ call.ret.outputs = 2

(***************************************************************************)
(* libss.ss objects.  heap[id] is an array object; a model holds its four  *)
(* matrices by reference (ss.__init__ does not copy them), so models[m].A  *)
(* is an id of heap.                                                       *)
(***************************************************************************)
Ok(h, ms, ret) == [h |-> h, ms |-> ms, err |-> "", ret |-> ret]

Fail(h, ms, e) == [h |-> h, ms |-> ms, err |-> e, ret |-> 0]

\* the model m of (h, ms) with its matrices by value
ModelValue(h, ms, m) ==
  [t |-> "ss", A |-> h[ms[m].A], B |-> h[ms[m].B], C |-> h[ms[m].C], D |-> h[ms[m].D],
   dt |-> ms[m].dt, states |-> ms[m].states, inputs |-> ms[m].inputs,
   outputs |-> ms[m].outputs, err |-> ""]

FieldIds(ms) ==
  [k \in 1..(4 * Len(ms)) |->
     LET r == ms[((k - 1) \div 4) + 1]
         f == (k - 1) % 4
     IN  IF f = 0 THEN r.A ELSE IF f = 1 THEN r.B ELSE IF f = 2 THEN r.C ELSE r.D]

RECURSIVE Dedup(_)
Dedup(q) ==
  IF q = <<>> THEN <<>>
  ELSE LET front == Dedup(SubSeq(q, 1, Len(q) - 1))
           x == q[Len(q)]
       IN  IF \E k \in 1..Len(front) : front[k] = x THEN front ELSE Append(front, x)

IndexOf(q, x) == CHOOSE k \in 1..Len(q) : q[k] = x

\* arrays no model refers to are freed; the remaining ones are renumbered
Compact(st) ==
  LET order == Dedup(FieldIds(st.ms))
  IN  [st EXCEPT
         !.h = [k \in 1..Len(order) |-> st.h[order[k]]],
         !.ms = [m \in 1..Len(st.ms) |->
                   [st.ms[m] EXCEPT !.A = IndexOf(order, @), !.B = IndexOf(order, @),
                                    !.C = IndexOf(order, @), !.D = IndexOf(order, @)]]]

\* ss(A, B, C, D, dt) on caller-made arrays: the new model refers to them
ss_new(h, ms, A, B, C, D, dt) ==
  IF ssInitErr(A, B, C, D) # "" THEN Fail(h, ms, ssInitErr(A, B, C, D))
  ELSE LET n == Len(h)
       IN  Ok(h \o <<A, B, C, D>>,
              Append(ms, [A |-> n + 1, B |-> n + 2, C |-> n + 3, D |-> n + 4, dt |-> dt,
                          states |-> B.sh[1], inputs |-> B.sh[2], outputs |-> C.sh[1]]),
              Len(ms) + 1)

\* ss.addGain with where = 'in', the cached inputs left as they were
ss_addGain_in_stale(h, ms, m, K) ==
  LET Bn == dot(h[ms[m].B], K, "None")
      h1 == Append(h, Bn)
      ms1 == [ms EXCEPT ![m].B = Len(h1)]
      Dn == dot(h1[ms1[m].D], K, "None")
      h2 == Append(h1, Dn)
      ms2 == [ms1 EXCEPT ![m].D = Len(h2)]
  IN  IF IsErr(Bn) THEN Fail(h, ms, Bn.err)
      ELSE IF IsErr(Dn) THEN Fail(h1, ms1, Dn.err)
      ELSE Ok(h2, ms2, 0)

\* ss.addGain(self, K, 'in'): lines 145-148
ss_addGain_in(h, ms, m, K) ==
  LET Bn == dot(h[ms[m].B], K, "None")
      h1 == Append(h, Bn)
      ms1 == [ms EXCEPT ![m].B = Len(h1)]
      Dn == dot(h1[ms1[m].D], K, "None")
      h2 == Append(h1, Dn)
      ms2 == [ms1 EXCEPT ![m].D = Len(h2)]
  IN  IF IsErr(Bn) THEN Fail(h, ms, Bn.err)
      ELSE IF IsErr(Dn) THEN Fail(h1, ms1, Dn.err)
      ELSE IF NDim(K) < 2 THEN Fail(h2, ms2, "IndexError")
      ELSE Ok(h2, [ms2 EXCEPT ![m].inputs = K.sh[2]], 0)

\* ss.addGain with where = 'out', D left as it was
ss_addGain_out_keepD(h, ms, m, K) ==
  LET Cn == dot(K, h[ms[m].C], "None")
      h1 == Append(h, Cn)
      ms1 == [ms EXCEPT ![m].C = Len(h1)]
  IN  IF IsErr(Cn) THEN Fail(h, ms, Cn.err)
      ELSE Ok(h1, [ms1 EXCEPT ![m].outputs = K.sh[1]], 0)

\* ss.addGain(self, K, 'out'): lines 150-153
ss_addGain_out(h, ms, m, K) ==
  LET Cn == dot(K, h[ms[m].C], "None")
      h1 == Append(h, Cn)
      ms1 == [ms EXCEPT ![m].C = Len(h1)]
      Dn == dot(K, h1[ms1[m].D], "None")
      h2 == Append(h1, Dn)
      ms2 == [ms1 EXCEPT ![m].D = Len(h2)]
  IN  IF IsErr(Cn) THEN Fail(h, ms, Cn.err)
      ELSE IF IsErr(Dn) THEN Fail(h1, ms1, Dn.err)
      ELSE Ok(h2, [ms2 EXCEPT ![m].outputs = K.sh[1]], 0)

\* ss.addGain(self, K, where)
ss_addGain(h, ms, m, K, where) ==
  IF where \notin {"in", "out"} THEN Fail(h, ms, "AssertionError")
  ELSE IF where = "in" THEN ss_addGain_in(h, ms, m, K)
  ELSE ss_addGain_out(h, ms, m, K)

(***************************************************************************)
(* libss.scale_SS and ss.scale                                             *)
(***************************************************************************)
\* a scaling argument: a float, or a list / array of floats
Scalar(x) == [kind |-> "scalar", v |-> <<x>>]

List(q) == [kind |-> "list", v |-> q]

\* isinstance(scal, (list, np.ndarray)) and a wrong length
BadLength(scal, N) == scal.kind = "list" /\ Len(scal.v) # N

\* N*[scal] for a float
Expand(scal, N) == IF scal.kind = "list" THEN scal.v ELSE [k \in 1..N |-> scal.v[1]]

\* M[:, k] = M[:, k] (op) x  (axis "col")  or  M[k, :] = M[k, :] (op) x
ScaleLine(M, axis, k, x, op) ==
  IF NDim(M) # 2 THEN Raise("IndexError")
  ELSE IF k > (IF axis = "col" THEN M.sh[2] ELSE M.sh[1]) THEN Raise("IndexError")
  ELSE Arr(M.t, M.sh,
           [i \in 1..M.sh[1] |-> [j \in 1..M.sh[2] |->
              IF (IF axis = "col" THEN j ELSE i) = k
              THEN BinOp(op, M.v[i][j], x) ELSE M.v[i][j]]])

\* a scaling statement that always multiplies
ScaleStmt_times(M, axis, k, x, mul) == ScaleLine(M, axis, k, x, "*")

\* M[..] = M[..] * x or M[..] = M[..] / x
ScaleStmt(M, axis, k, x, mul) ==
  ScaleLine(M, axis, k, x, IF mul THEN "*" ELSE "/")

\* one scaling loop: for ii in range(N), the array id1 and then the array
\* id2 are updated in place
RECURSIVE ScaleLoop(_, _, _, _, _, _, _, _, _, _)
ScaleLoop(st, id1, axis1, mul1, id2, axis2, mul2, scal, ii, N) ==
  IF st.err # "" \/ ii > N THEN st
  ELSE LET m1 == ScaleStmt(st.h[id1], axis1, ii, scal[ii], mul1)
           h1 == [st.h EXCEPT ![id1] = m1]
           m2 == ScaleStmt(h1[id2], axis2, ii, scal[ii], mul2)
       IN  IF IsErr(m1) THEN [st EXCEPT !.err = m1.err]
           ELSE IF IsErr(m2) THEN [st EXCEPT !.h = h1, !.err = m2.err]
           ELSE ScaleLoop([st EXCEPT !.h = [h1 EXCEPT ![id2] = m2]],
                          id1, axis1, mul1, id2, axis2, mul2, scal, ii + 1, N)

\* copy.copy(SSin): a new model on the same arrays
deepcopy_shallow(h, ms, m) == Ok(h, Append(ms, ms[m]), Len(ms) + 1)

\* copy.deepcopy(SSin): a new model on copies of the arrays (fields that
\* share an array share its copy)
deepcopy(h, ms, m) ==
  LET old == Dedup(<<ms[m].A, ms[m].B, ms[m].C, ms[m].D>>)
      n == Len(h)
  IN  Ok(h \o [k \in 1..Len(old) |-> h[old[k]]],
         Append(ms, [ms[m] EXCEPT !.A = n + IndexOf(old, @), !.B = n + IndexOf(old, @),
                                  !.C = n + IndexOf(old, @), !.D = n + IndexOf(old, @)]),
         Len(ms) + 1)

\* scale_SS(SSin, input_scal, output_scal, state_scal, byref); ret is the
\* model returned
scale_SS(h, ms, m, input_scal, output_scal, state_scal, byref) ==
  LET Nin == ms[m].inputs
      Nout == ms[m].outputs
      Nstates == h[ms[m].A].sh[1]
      st0 == IF byref THEN Ok(h, ms, m) ELSE deepcopy(h, ms, m)
      SS == st0.ms[st0.ret]
      st1 == ScaleLoop(st0, SS.B, "col", TRUE, SS.D, "col", TRUE,
                       Expand(input_scal, Nin), 1, Nin)
      st2 == ScaleLoop(st1, SS.C, "row", FALSE, SS.D, "row", FALSE,
                       Expand(output_scal, Nout), 1, Nout)
      st3 == ScaleLoop(st2, SS.B, "row", FALSE, SS.C, "col", TRUE,
                       Expand(state_scal, Nstates), 1, Nstates)
  IN  IF BadLength(input_scal, Nin) THEN Fail(h, ms, "AssertionError")
      ELSE IF BadLength(output_scal, Nout) THEN Fail(h, ms, "AssertionError")
      ELSE IF BadLength(state_scal, Nstates) THEN Fail(h, ms, "AssertionError")
      ELSE st3

\* ss.scale(self, input_scal, output_scal, state_scal): returns None
ss_scale(h, ms, m, input_scal, output_scal, state_scal) ==
  [scale_SS(h, ms, m, input_scal, output_scal, state_scal, TRUE) EXCEPT !.ret = 0]

(***************************************************************************)
(* Life of ss objects: construction, then any calls of the mutators        *)
(***************************************************************************)
MaxOps == 2

MaxModels == 2

\* scaling arguments for N channels: a float, a list of the right length,
\* a list one too long
Float == Scalar(Num(2))

RightList(N) == List([k \in 1..N |-> Num(k + 1)])

LongList(N) == List([k \in 1..(N + 1) |-> Num(k + 1)])

\* the (input_scal, output_scal, state_scal) a caller passes to a model
ScalArgs(M) ==
  LET i == M.inputs
      o == M.outputs
      s == M.states
  IN  { <<Float, Float, Float>>,
        <<RightList(i), RightList(o), RightList(s)>>,
        <<Float, RightList(o), Float>>,
        <<LongList(i), RightList(o), RightList(s)>>,
        <<RightList(i), LongList(o), Float>>,
        <<Float, RightList(o), LongList(s)>> }

InitSS ==
  /\ heap = <<>>
  /\ models = <<>>
  /\ call = [op |-> "none", n |-> 0]

\* the state after a call; n counts the calls made on the models
Commit(st, c, n) ==
  LET cst == Compact(st)
  IN  /\ heap' = cst.h
      /\ models' = cst.ms
      /\ call' = [c EXCEPT !.err = st.err, !.ret = st.ret, !.n = n]

New ==
  /\ models = <<>>
  /\ \E tb \in SupportedTypes, tc \in SupportedTypes, td \in SupportedTypes,
        s \in Dims, i \in Dims, o \in Dims, dt \in Dts :
       LET A == Gen(tb, 1, s, s)
           B == Gen(tb, 2, s, i)
           C == Gen(tc, 3, o, s)
           D == Gen(td, 1, o, i)
       IN  Commit(ss_new(heap, models, A, B, C, D, dt),
                  [op |-> "ss", err |-> "", ret |-> 0, n |-> 0], 0)

MethodAddGain ==
  /\ models # <<>>
  /\ call.n < MaxOps
  /\ \E m \in 1..Len(models), tk \in Kinds, r \in Dims, c \in Dims,
        where \in {"in", "out", "parallel-down"} :
       LET K == Gen(tk, 2, r, c)
       IN  Commit(ss_addGain(heap, models, m, K, where),
                  [op |-> "ss.addGain", self |-> m, K |-> K, where |-> where,
                   err |-> "", ret |-> 0, n |-> 0], call.n + 1)

MethodScale ==
  /\ models # <<>>
  /\ call.n < MaxOps
  /\ \E m \in 1..Len(models) :
       \E a \in ScalArgs(models[m]) :
         Commit(ss_scale(heap, models, m, a[1], a[2], a[3]),
                [op |-> "ss.scale", self |-> m, input_scal |-> a[1],
                 output_scal |-> a[2], state_scal |-> a[3], byref |-> TRUE,
                 err |-> "", ret |-> 0, n |-> 0], call.n + 1)

FuncScaleSS ==
  /\ models # <<>>
  /\ call.n < MaxOps
  /\ \E m \in 1..Len(models), byref \in BOOLEAN :
       /\ byref \/ Len(models) < MaxModels
       /\ \E a \in ScalArgs(models[m]) :
            Commit(scale_SS(heap, models, m, a[1], a[2], a[3], byref),
                   [op |-> "scale_SS", self |-> m, input_scal |-> a[1],
                    output_scal |-> a[2], state_scal |-> a[3], byref |-> byref,
                    err |-> "", ret |-> 0, n |-> 0], call.n + 1)

NextSS == New \/ MethodAddGain \/ MethodScale \/ FuncScaleSS

SpecSS == InitSS /\ [][NextSS]_vars


(***************************************************************************)
(* Properties of ss objects                                                *)
(***************************************************************************)
Is2D(M) == ~IsErr(M) /\ NDim(M) = 2

SameValue(X, Y) == ~IsErr(X) /\ ~IsErr(Y) /\ X.sh = Y.sh /\ X.v = Y.v

Consistent(M) ==
  /\ Is2D(M.A) /\ Is2D(M.B) /\ Is2D(M.C) /\ Is2D(M.D)
  /\ check_types(M.A, M.B, M.C, M.D)
  /\ M.A.sh = <<M.states, M.states>>
  /\ M.B.sh = <<M.states, M.inputs>>
  /\ M.C.sh = <<M.outputs, M.states>>
  /\ M.D.sh = <<M.outputs, M.inputs>>

\* C5: after any sequence of ss.addGain and ss.scale / scale_SS calls, failed
\* or not, every model's cached states, inputs and outputs are the
\* dimensions of its matrices, and the matrices have supported types
C5_CachedDimensionsConsistent ==
  \A m \in 1..Len(models) : Consistent(ModelValue(heap, models, m))

\* a second call changed the number of inputs of a scaled or projected model
C5_Witness ==
  /\ call.op = "ss.addGain" /\ call.n = 2 /\ call.err = ""
  /\ call.where = "in" /\ call.K.sh = <<1, 2>> /\ call.K.t = "csc_matrix"
  /\ models[call.self].inputs = 2

\* the model a call was made on, before and after the step
Pre == ModelValue(heap, models, call'.self)

Post == ModelValue(heap', models', call'.self)

\* C6: ss.addGain(K, 'in') replaces B by B.K and D by D.K and sets inputs to
\* the columns of K; 'out' replaces C by K.C and D by K.D and sets outputs to
\* the rows of K; the other fields are unchanged; any other 'where' raises
\* and changes nothing
C6_AddGainEffect ==
  [][ call'.op = "ss.addGain" =>
        /\ (call'.where = "in" /\ call'.err = "") =>
              /\ SameValue(Post.B, NpDot(dense(Pre.B), dense(call'.K)))
              /\ SameValue(Post.D, NpDot(dense(Pre.D), dense(call'.K)))
              /\ Post.inputs = call'.K.sh[2]
              /\ Post.A = Pre.A /\ Post.C = Pre.C /\ Post.dt = Pre.dt
              /\ Post.states = Pre.states /\ Post.outputs = Pre.outputs
        /\ (call'.where = "out" /\ call'.err = "") =>
              /\ SameValue(Post.C, NpDot(dense(call'.K), dense(Pre.C)))
              /\ SameValue(Post.D, NpDot(dense(call'.K), dense(Pre.D)))
              /\ Post.outputs = call'.K.sh[1]
              /\ Post.A = Pre.A /\ Post.B = Pre.B /\ Post.dt = Pre.dt
              /\ Post.states = Pre.states /\ Post.inputs = Pre.inputs
        /\ call'.where \notin {"in", "out"} =>
              /\ call'.err # ""
              /\ heap' = heap /\ models' = models ]_vars

\* a sparse, non-square gain was applied to the outputs
C6_Witness ==
  /\ call.op = "ss.addGain" /\ call.err = "" /\ call.where = "out"
  /\ call.K.t = "csc_matrix" /\ call.K.sh = <<1, 2>>
  /\ models[call.self].outputs = 1

\* the matrices the docstring of scale_SS describes: B.uref/xref,
\* C.xref/yref, D.uref/yref per channel
Scaled(M, in, out, st) ==
  [M EXCEPT
     !.B = Arr(M.B.t, M.B.sh, [r \in 1..M.states |-> [c \in 1..M.inputs |->
                  NDiv(NMul(M.B.v[r][c], in[c]), st[r])]]),
     !.C = Arr(M.C.t, M.C.sh, [r \in 1..M.outputs |-> [c \in 1..M.states |->
                  NDiv(NMul(M.C.v[r][c], st[c]), out[r])]]),
     !.D = Arr(M.D.t, M.D.sh, [r \in 1..M.outputs |-> [c \in 1..M.inputs |->
                  NDiv(NMul(M.D.v[r][c], in[c]), out[r])]])]

ScaleCall == call'.op \in {"ss.scale", "scale_SS"}

WrongLength ==
  \/ BadLength(call'.input_scal, Pre.inputs)
  \/ BadLength(call'.output_scal, Pre.outputs)
  \/ BadLength(call'.state_scal, Pre.states)

\* the model a scaling call has scaled: SSin, or its copy
Target ==
  IF call'.byref THEN Post ELSE ModelValue(heap', models', call'.ret)

\* C7: scaling gives B[r,c] = B0[r,c].in[c]/st[r], C[r,c] = C0[r,c].st[c]/out[r],
\* D[r,c] = D0[r,c].in[c]/out[r] and leaves A and dt unchanged, a scalar
\* standing for the constant sequence; a sequence of the wrong length raises
\* before anything is altered
C7_ScaleEffect ==
  [][ ScaleCall =>
        /\ WrongLength => (call'.err # "" /\ heap' = heap /\ models' = models)
        /\ ~WrongLength =>
              /\ call'.err = ""
              /\ Target = Scaled(Pre, Expand(call'.input_scal, Pre.inputs),
                                 Expand(call'.output_scal, Pre.outputs),
                                 Expand(call'.state_scal, Pre.states)) ]_vars

\* a model with two inputs, outputs and states was scaled by a float and lists
C7_Witness ==
  /\ call.op = "ss.scale" /\ call.err = ""
  /\ call.input_scal.kind = "scalar" /\ call.output_scal.kind = "list"
  /\ models[call.self].inputs = 2 /\ models[call.self].outputs = 2
  /\ models[call.self].states = 2

\* C8: scale_SS(byref=False) returns a new model holding the scaled matrices
\* and leaves SSin unchanged; byref=True (and ss.scale) scales SSin itself
\* and returns it; both give the same matrices
C8_ScaleByRefOrCopy ==
  [][ (ScaleCall /\ call'.err = "") =>
        \* inplace: the state that scaling the same model by reference gives
        \A c \in {call'} :
        \A inplace \in {scale_SS(heap, models, c.self, c.input_scal,
                                 c.output_scal, c.state_scal, TRUE)} :
        \A scaled \in {ModelValue(inplace.h, inplace.ms, c.self)} :
            /\ ~call'.byref =>
                 /\ call'.ret = Len(models) + 1
                 /\ Len(models') = Len(models) + 1
                 /\ Post = Pre
                 /\ \A m \in 1..Len(models) : models'[m] = models[m]
                 /\ {models'[call'.ret].A, models'[call'.ret].B,
                     models'[call'.ret].C, models'[call'.ret].D}
                      \cap {models'[call'.self].A, models'[call'.self].B,
                            models'[call'.self].C, models'[call'.self].D} = {}
                 /\ ModelValue(heap', models', call'.ret) = scaled
            /\ call'.byref =>
                 /\ call'.op = "scale_SS" => call'.ret = call'.self
                 /\ models' = models
                 /\ Post = scaled ]_vars

\* a copy was scaled and returned
C8_Witness ==
  /\ call.op = "scale_SS" /\ call.err = "" /\ ~call.byref
  /\ call.ret = 2 /\ Len(models) = 2
  /\ heap[models[1].B] # heap[models[2].B]

(***************************************************************************)
(* libss.couple                                                            *)
(***************************************************************************)
\* numpy.block([[a, b], [c, d]]): 1-D blocks are read as single rows
Promote(M) == IF IsErr(M) \/ NDim(M) = 2 THEN M ELSE Arr(M.t, <<1, M.sh[1]>>, <<M.v>>)

\* numpy.concatenate along the last axis
HStack(X, Y) ==
  LET a == Promote(X)
      b == Promote(Y)
  IN  IF IsErr(a) THEN a
      ELSE IF IsErr(b) THEN b
      ELSE IF a.sh[1] # b.sh[1] THEN Raise("ValueError")
      ELSE Arr("ndarray", <<a.sh[1], a.sh[2] + b.sh[2]>>,
               [i \in 1..a.sh[1] |-> a.v[i] \o b.v[i]])

\* numpy.concatenate along the first axis
VStack(X, Y) ==
  LET a == Promote(X)
      b == Promote(Y)
  IN  IF IsErr(a) THEN a
      ELSE IF IsErr(b) THEN b
      ELSE IF a.sh[2] # b.sh[2] THEN Raise("ValueError")
      ELSE Arr("ndarray", <<a.sh[1] + b.sh[1], a.sh[2]>>, a.v \o b.v)

Block22(a, b, c, d) == VStack(HStack(a, b), HStack(c, d))

\* |dt1 - dt2| < 1e-10 * dt1 on floats; None operands raise TypeError
DtDiffers(dt1, dt2) ==
  IF dt1[1] * dt2[2] # dt2[1] * dt1[2] THEN TRUE
  ELSE ~(AbsInt(dt1[3] - dt2[3]) * dt1[2] < 10 * dt1[1])

\* L = (-K).D; L += eye_as(L)
couple_lhs(nKD) == Plus(nKD, eye_as(nKD))

\* libsp.dot(libsp.dot(X, cpl), Y)
couple_term(X, cpl, Y) == dot(dot(X, cpl, "None"), Y, "None")

\* the end of couple: the first exception raised while A, C, B, D were
\* built, or ss(A, B, C, D, dt)
couple_return(A, C, B, D, dt) ==
  IF IsErr(A) THEN A
  ELSE IF IsErr(C) THEN C
  ELSE ssInit(A, B, C, D, dt)

\* "Build coupled system": the four block matrices from the coupling terms
couple_build(ss01, ss02, cpl_11, cpl_12, cpl_21, cpl_22, out_sparse) ==
  LET A1 == ss01.A
      B1 == ss01.B
      C1 == ss01.C
      D1 == ss01.D
      A2 == ss02.A
      B2 == ss02.B
      C2 == ss02.C
      D2 == ss02.D
  IN  IF IsErr(cpl_12) THEN cpl_12
      ELSE IF IsErr(cpl_21) THEN cpl_21
      ELSE IF IsErr(cpl_11) THEN cpl_11
      ELSE IF IsErr(cpl_22) THEN cpl_22
      ELSE IF out_sparse THEN Raise("NameError")
      ELSE couple_return(
        Block22(dense(Plus(A1, couple_term(B1, cpl_11, C1))),
                dense(couple_term(B1, cpl_12, C2)),
                dense(couple_term(B2, cpl_21, C1)),
                dense(Plus(A2, couple_term(B2, cpl_22, C2)))),
        Block22(dense(Plus(C1, couple_term(D1, cpl_11, C1))),
                dense(couple_term(D1, cpl_12, C2)),
                dense(couple_term(D2, cpl_21, C1)),
                dense(Plus(C2, couple_term(D2, cpl_22, C2)))),
        Block22(dense(Plus(B1, couple_term(B1, cpl_11, D1))),
                dense(couple_term(B1, cpl_12, D2)),
                dense(couple_term(B2, cpl_21, D1)),
                dense(Plus(B2, couple_term(B2, cpl_22, D2)))),
        Block22(dense(Plus(D1, couple_term(D1, cpl_11, D1))),
                dense(couple_term(D1, cpl_12, D2)),
                dense(couple_term(D2, cpl_21, D1)),
                dense(Plus(D2, couple_term(D2, cpl_22, D2)))),
        ss01.dt)

\* cpl_11 and cpl_22 from cpl_12 and cpl_21
couple_terms(ss01, ss02, DK21, DK12, cpl_12, cpl_21, out_sparse) ==
  couple_build(ss01, ss02, dot(cpl_12, DK21, "None"), cpl_12,
               cpl_21, dot(cpl_21, DK12, "None"), out_sparse)

\* "coupling terms": cpl_12, cpl_21 solve L1 x = K12, L2 x = K21
couple_solve(ss01, ss02, K12, K21, DK21, DK12, L1, L2, out_sparse) ==
  couple_terms(ss01, ss02, DK21, DK12, solve(L1, K12), solve(L2, K21), out_sparse)

\* "compute self-influence gains" and "left hand side terms"; DK21 and DK12
\* are libsp.dot(D2, K21) and libsp.dot(D1, K12)
couple_gains(ss01, ss02, K12, K21, DK21, DK12, out_sparse) ==
  couple_solve(ss01, ss02, K12, K21, DK21, DK12,
               couple_lhs(dot(Neg(dot(K12, DK21, "None")), ss01.D, "None")),
               couple_lhs(dot(Neg(dot(K21, DK12, "None")), ss02.D, "None")),
               out_sparse)

\* couple without the assertion on the shape of K21
couple_unchecked_K21(ss01, ss02, K12, K21, out_sparse) ==
  IF ss01.dt = DtNone \/ ss02.dt = DtNone THEN Raise("TypeError")
  ELSE IF DtDiffers(ss01.dt, ss02.dt) THEN Raise("AssertionError")
  ELSE IF K12.sh # <<ss01.inputs, ss02.outputs>> THEN Raise("AssertionError")
  ELSE couple_gains(ss01, ss02, K12, K21, dot(ss02.D, K21, "None"),
                    dot(ss01.D, K12, "None"), out_sparse)

\* couple whose time-step comparison lets an absent sample interval pass
couple_dt_unchecked(ss01, ss02, K12, K21, out_sparse) ==
  IF ss01.dt # DtNone /\ ss02.dt # DtNone /\ DtDiffers(ss01.dt, ss02.dt)
  THEN Raise("AssertionError")
  ELSE IF K12.sh # <<ss01.inputs, ss02.outputs>> THEN Raise("AssertionError")
  ELSE IF K21.sh # <<ss02.inputs, ss01.outputs>> THEN Raise("AssertionError")
  ELSE couple_gains(ss01, ss02, K12, K21, dot(ss02.D, K21, "None"),
                    dot(ss01.D, K12, "None"), out_sparse)

\* couple(ss01, ss02, K12, K21, out_sparse) on models and gains by value
couple(ss01, ss02, K12, K21, out_sparse) ==
  IF ss01.dt = DtNone \/ ss02.dt = DtNone THEN Raise("TypeError")
  ELSE IF DtDiffers(ss01.dt, ss02.dt) THEN Raise("AssertionError")
  ELSE IF K12.sh # <<ss01.inputs, ss02.outputs>> THEN Raise("AssertionError")
  ELSE IF K21.sh # <<ss02.inputs, ss01.outputs>> THEN Raise("AssertionError")
  ELSE couple_gains(ss01, ss02, K12, K21, dot(ss02.D, K21, "None"),
                    dot(ss01.D, K12, "None"), out_sparse)

\* the model of seed s with matrices of type t
GenSS(t, s, Nx, Nu, Ny, dt) ==
  ssInit(Gen(t, s, Nx, Nx), Gen(t, s + 1, Nx, Nu), Gen(t, s + 2, Ny, Nx),
         Gen(t, s + 3, Ny, Nu), dt)

InitCouple ==
  /\ heap = <<>>
  /\ models = <<>>
  /\ call = [op |-> "none"]

CallCouple ==
  /\ call.op = "none"
  /\ \E t1 \in SupportedTypes, t2 \in SupportedTypes, t12 \in SupportedTypes,
        t21 \in SupportedTypes, sk \in Seeds,
        Nx1 \in Dims, Nu1 \in Dims, Ny1 \in Dims,
        Nx2 \in Dims, Nu2 \in Dims, Ny2 \in Dims, dt2 \in Dts, out_sparse \in BOOLEAN :
       LET S1 == GenSS(t1, sk + 1, Nx1, Nu1, Ny1, <<1, 5, 0>>)
           S2 == GenSS(t2, sk + 2, Nx2, Nu2, Ny2, dt2)
           K12 == Gen(t12, sk, Nu1, Ny2)
           K21 == Gen(t21, sk + 1, Nu2, Ny1)
       IN  /\ out_sparse => (sk = 0 /\ t1 = "ndarray")
           /\ dt2 = DtNone => (sk = 0 /\ t1 = "ndarray")
           /\ call' = [op |-> "couple", S1 |-> S1, S2 |-> S2, K12 |-> K12, K21 |-> K21,
                       out_sparse |-> out_sparse,
                       ret |-> couple(S1, S2, K12, K21, out_sparse)]
           /\ UNCHANGED <<heap, models>>

\* sample intervals of the second operand: 0.2, 0.2 + 1e-11, 0.2 + 3e-11, 0.4
DtsCouple == {<<1, 5, 0>>, <<1, 5, 1>>, <<1, 5, 3>>, <<2, 5, 0>>}

\* couple(S1, S2, K12, K21) with both gains zero matrices of the required shapes
CallCoupleZero ==
  /\ call.op = "none"
  /\ \E t1 \in SupportedTypes, t2 \in SupportedTypes, tk \in SupportedTypes,
        sk \in Seeds, Nx1 \in Dims, Nu1 \in Dims, Ny1 \in Dims,
        Nx2 \in Dims, Nu2 \in Dims, Ny2 \in Dims :
       /\ call' = [op |-> "couple",
                   S1 |-> GenSS(t1, sk + 1, Nx1, Nu1, Ny1, <<1, 5, 0>>),
                   S2 |-> GenSS(t2, sk + 2, Nx2, Nu2, Ny2, <<1, 5, 0>>),
                   K12 |-> Gen(tk, 0, Nu1, Ny2), K21 |-> Gen(tk, 0, Nu2, Ny1),
                   out_sparse |-> FALSE,
                   ret |-> couple(GenSS(t1, sk + 1, Nx1, Nu1, Ny1, <<1, 5, 0>>),
                                  GenSS(t2, sk + 2, Nx2, Nu2, Ny2, <<1, 5, 0>>),
                                  Gen(tk, 0, Nu1, Ny2), Gen(tk, 0, Nu2, Ny1), FALSE)]
       /\ UNCHANGED <<heap, models>>

\* couple(S1, S2, K12, K21) with gains of any shape and any pair of sample
\* intervals
CallCoupleAny ==
  /\ call.op = "none"
  /\ \E t \in SupportedTypes, Nu1 \in Dims, Ny1 \in Dims, Nu2 \in Dims, Ny2 \in Dims,
        r12 \in Dims, c12 \in Dims, r21 \in Dims, c21 \in Dims, dt2 \in DtsCouple :
       /\ call' = [op |-> "couple",
                   S1 |-> GenSS(t, 1, 1, Nu1, Ny1, <<1, 5, 0>>),
                   S2 |-> GenSS(t, 2, 2, Nu2, Ny2, dt2),
                   K12 |-> Gen(t, 1, r12, c12), K21 |-> Gen(t, 2, r21, c21),
                   out_sparse |-> FALSE,
                   ret |-> couple(GenSS(t, 1, 1, Nu1, Ny1, <<1, 5, 0>>),
                                  GenSS(t, 2, 2, Nu2, Ny2, dt2),
                                  Gen(t, 1, r12, c12), Gen(t, 2, r21, c21), FALSE)]
       /\ UNCHANGED <<heap, models>>

\* couple(S1, S2, K12, K21) with the feedthrough matrices D1, D2 and the gains
\* chosen independently, so that the loop terms L1, L2 may be singular
CallCoupleLoop ==
  /\ call.op = "none"
  /\ \E t \in SupportedTypes, sD \in Seeds, s12 \in Seeds, s21 \in Seeds,
        Nu1 \in Dims, Ny1 \in Dims, Nu2 \in Dims, Ny2 \in Dims :
       /\ call' = [op |-> "couple",
                   S1 |-> ssInit(Gen(t, 1, 1, 1), Gen(t, 2, 1, Nu1), Gen(t, 3, Ny1, 1),
                                 Gen(t, sD, Ny1, Nu1), <<1, 5, 0>>),
                   S2 |-> ssInit(Gen(t, 2, 1, 1), Gen(t, 3, 1, Nu2), Gen(t, 1, Ny2, 1),
                                 Gen(t, sD, Ny2, Nu2), <<1, 5, 0>>),
                   K12 |-> Gen(t, s12, Nu1, Ny2), K21 |-> Gen(t, s21, Nu2, Ny1),
                   out_sparse |-> FALSE,
                   ret |-> couple(ssInit(Gen(t, 1, 1, 1), Gen(t, 2, 1, Nu1),
                                         Gen(t, 3, Ny1, 1), Gen(t, sD, Ny1, Nu1), <<1, 5, 0>>),
                                  ssInit(Gen(t, 2, 1, 1), Gen(t, 3, 1, Nu2),
                                         Gen(t, 1, Ny2, 1), Gen(t, sD, Ny2, Nu2), <<1, 5, 0>>),
                                  Gen(t, s12, Nu1, Ny2), Gen(t, s21, Nu2, Ny1), FALSE)]
       /\ UNCHANGED <<heap, models>>

\* couple(S1, S2, K12, K21) with each operand a continuous-time (dt=None) or
\* a sampled model, and gains of any shape
CallCoupleDt ==
  /\ call.op = "none"
  /\ \E t \in SupportedTypes, sk \in Seeds, dt1 \in Dts, dt2 \in Dts,
        Nu1 \in Dims, Ny1 \in Dims, r12 \in Dims, c12 \in Dims,
        r21 \in Dims, c21 \in Dims :
       /\ call' = [op |-> "couple",
                   S1 |-> GenSS(t, sk + 1, 1, Nu1, Ny1, dt1),
                   S2 |-> GenSS(t, sk + 2, 1, 1, 1, dt2),
                   K12 |-> Gen(t, sk, r12, c12), K21 |-> Gen(t, sk + 1, r21, c21),
                   out_sparse |-> FALSE,
                   ret |-> couple(GenSS(t, sk + 1, 1, Nu1, Ny1, dt1),
                                  GenSS(t, sk + 2, 1, 1, 1, dt2),
                                  Gen(t, sk, r12, c12), Gen(t, sk + 1, r21, c21), FALSE)]
       /\ UNCHANGED <<heap, models>>

NextCouple ==
  CallCoupleDt \/ CallCoupleAny \/ CallCoupleLoop \/ CallCoupleZero \/ CallCouple

SpecCouple == InitCouple /\ [][NextCouple]_vars

\* the model M with its four matrices as numpy arrays
DenseSS(M) == [M EXCEPT !.A = dense(@), !.B = dense(@), !.C = dense(@), !.D = dense(@)]

\* couple on the dense equivalents of the operands of the call
CoupleDense ==
  couple(DenseSS(call.S1), DenseSS(call.S2), dense(call.K12), dense(call.K21), FALSE)

\* C1: whenever the all-dense call returns a model, the call with any of
\* S1, S2, K12, K21 sparse returns a model too, with the same dense A, B, C, D
C1_CoupleRepresentationInvariant ==
  (call.op = "couple" /\ ~call.out_sparse /\ CoupleDense.t = "ss") =>
     /\ call.ret.t = "ss"
     /\ call.ret.A = CoupleDense.A /\ call.ret.B = CoupleDense.B
     /\ call.ret.C = CoupleDense.C /\ call.ret.D = CoupleDense.D

\* the call couples its operands through two zero gains of the right shapes
ZeroGains ==
  /\ call.op = "couple"
  /\ call.K12.v = Gen("ndarray", 0, call.S1.inputs, call.S2.outputs).v
  /\ call.K21.v = Gen("ndarray", 0, call.S2.inputs, call.S1.outputs).v

\* the dense block-diagonal matrix diag(X, Y)
Diag(X, Y) ==
  Block22(dense(X), Gen("ndarray", 0, X.sh[1], Y.sh[2]),
          Gen("ndarray", 0, Y.sh[1], X.sh[2]), dense(Y))

\* C11: couple with K12 and K21 both zero returns the uncoupled system:
\* A = diag(A1, A2), B = diag(B1, B2), C = diag(C1, C2), D = diag(D1, D2),
\* the states, inputs and outputs of the operands added, the sample interval
\* of S1
C11_CoupleZeroGains ==
  ZeroGains =>
     /\ call.ret.t = "ss"
     /\ call.ret.A = Diag(call.S1.A, call.S2.A)
     /\ call.ret.B = Diag(call.S1.B, call.S2.B)
     /\ call.ret.C = Diag(call.S1.C, call.S2.C)
     /\ call.ret.D = Diag(call.S1.D, call.S2.D)
     /\ call.ret.states = call.S1.states + call.S2.states
     /\ call.ret.inputs = call.S1.inputs + call.S2.inputs
     /\ call.ret.outputs = call.S1.outputs + call.S2.outputs
     /\ call.ret.dt = call.S1.dt

\* |dt1 - dt2| < 1e-10 * dt1 for sample intervals n/d + k * 1e-11
WithinTolerance(dt1, dt2) ==
  /\ dt1 # DtNone /\ dt2 # DtNone
  /\ dt1[1] * dt2[2] = dt2[1] * dt1[2]
  /\ AbsInt(dt1[3] - dt2[3]) * dt1[2] < 10 * dt1[1]

\* the three conditions couple requires of its operands
CoupleConditions ==
  /\ WithinTolerance(call.S1.dt, call.S2.dt)
  /\ call.K12.sh = <<call.S1.inputs, call.S2.outputs>>
  /\ call.K21.sh = <<call.S2.inputs, call.S1.outputs>>

\* C12: couple returns a model only if the sample intervals agree within
\* 1e-10 * dt1, K12 is inputs1 x outputs2 and K21 is inputs2 x outputs1; when
\* one of the three fails, the call raises at its entry (the assertion, or the
\* comparison itself), before any product or solve
C12_CouplePreconditions ==
  call.op = "couple" =>
     /\ call.ret.t = "ss" => CoupleConditions
     /\ ~CoupleConditions =>
          /\ call.ret.t = "raise"
          /\ call.ret.err \in {"AssertionError", "TypeError"}

\* a gain K21 of the wrong shape is refused although the sample intervals
\* (0.2 and 0.2 + 1e-11) and K12 are accepted
C12_Witness ==
  /\ call.op = "couple"
  /\ call.S2.dt = <<1, 5, 1>>
  /\ call.K12.sh = <<call.S1.inputs, call.S2.outputs>>
  /\ call.K21.sh # <<call.S2.inputs, call.S1.outputs>>
  /\ call.ret.t = "raise" /\ call.ret.err = "AssertionError"

\* I - K.Da.Kb.Db on dense copies of the operands
LoopTerm(K, Da, Kb, Db) ==
  couple_lhs(Neg(NpDot(NpDot(NpDot(dense(K), dense(Da)), dense(Kb)), dense(Db))))

\* the operands pass the entry checks and L1 or L2 is singular
LoopSingular ==
  /\ call.op = "couple" /\ ~call.out_sparse
  /\ CoupleConditions
  /\ \/ Singular(LoopTerm(call.K12, call.S2.D, call.K21, call.S1.D))
     \/ Singular(LoopTerm(call.K21, call.S1.D, call.K12, call.S2.D))

\* C13: whenever L1 = I - K12.D2.K21.D1 or L2 = I - K21.D1.K12.D2 is singular,
\* couple raises the singular-matrix error of the underlying solve
\* (LinAlgError of numpy, RuntimeError of the sparse factorisation) and returns
\* no model, for dense and sparse operands alike
C13_SingularLoopFails ==
  LoopSingular =>
     /\ call.ret.t = "raise"
     /\ call.ret.err \in {"LinAlgError", "RuntimeError"}

\* an operand of the call is a continuous-time model
ContinuousOperand ==
  /\ call.op = "couple"
  /\ (call.S1.dt = DtNone \/ call.S2.dt = DtNone)

\* C21: couple returns no model when either operand is a continuous-time
\* model (dt=None): the time-step comparison at its entry raises TypeError,
\* whatever the gains; every model couple returns has a numeric sample
\* interval, that of its first operand
C21_CoupleContinuousRefused ==
  /\ ContinuousOperand =>
       /\ call.ret.t = "raise"
       /\ call.ret.err = "TypeError"
  /\ (call.op = "couple" /\ call.ret.t = "ss") =>
       /\ call.ret.dt # DtNone
       /\ call.ret.dt = call.S1.dt

\* a continuous-time first operand is refused although the second is sampled
\* and both gains have the required shapes
C21_Witness ==
  /\ call.op = "couple"
  /\ call.S1.dt = DtNone /\ call.S2.dt # DtNone
  /\ call.K12.sh = <<call.S1.inputs, call.S2.outputs>>
  /\ call.K21.sh = <<call.S2.inputs, call.S1.outputs>>
  /\ call.ret.t = "raise" /\ call.ret.err = "TypeError"

(***************************************************************************)
(* libss.freqresp                                                          *)
(***************************************************************************)
MaxFreq == 2

MaxNw == 2

\* a frequency is k in 0..MaxFreq: w = k for a continuous-time model; for a
\* sampled model the w with tan(w * Ts / 2) = k / 2, so that cos(w * Ts) and
\* sin(w * Ts) are the rationals (4 - k^2) / (4 + k^2) and 4k / (4 + k^2)
Freqs == 0..MaxFreq

\* the point zv[ii] of frequency k: cos(wTs) + 1.j * sin(wTs), or 1.j * w
zv(k, dlti) ==
  IF dlti THEN Norm(4 - k * k, 4 * k, 4 + k * k) ELSE Norm(0, k, 1)

\* z * M for a scalar z: the class of M is kept
ScalarMul(z, M) ==
  IF IsErr(M) THEN M
  ELSE Arr(M.t, M.sh, [i \in 1..M.sh[1] |-> [j \in 1..M.sh[2] |-> NMul(z, M.v[i][j])]])

\* Yfreq[:, :, ii] = R: R is broadcast to Ny x Nu, or the assignment raises
SetSlice(R, Ny, Nu) ==
  IF IsErr(R) THEN R
  ELSE IF Rows(R) \notin {1, Ny} \/ Cols(R) \notin {1, Nu} THEN Raise("ValueError")
  ELSE Arr("ndarray", <<Ny, Nu>>, [i \in 1..Ny |-> [j \in 1..Nu |-> At(R, i, j)]])

\* one pass of the loop over the frequencies
FreqStep(SS, Eye, z) ==
  LET sol_cplx == solve(Minus(ScalarMul(z, Eye), SS.A), SS.B)
  IN  SetSlice(Plus(dot(SS.C, sol_cplx, "ndarray"), SS.D), SS.D.sh[1], SS.B.sh[2])

\* the slices Yfreq[:, :, 1..ii], or the first exception raised
RECURSIVE FreqLoop(_, _, _, _, _)
FreqLoop(SS, Eye, wv, dlti, ii) ==
  IF ii = 0 THEN [t |-> "slices", v |-> <<>>]
  ELSE LET before == FreqLoop(SS, Eye, wv, dlti, ii - 1)
           here == FreqStep(SS, Eye, zv(wv[ii], dlti))
       IN  IF IsErr(before) THEN before
           ELSE IF IsErr(here) THEN here
           ELSE [t |-> "slices", v |-> Append(before.v, here.v)]

\* freqresp(SS, wv, dlti): the tensor Yfreq[o][i][ii], or the exception
freqresp(SS, wv, dlti) ==
  IF SS.t # "ss" THEN Raise("AssertionError")
  ELSE IF ~check_types(SS.A, SS.B, SS.C, SS.D) THEN Raise("AssertionError")
  ELSE IF dlti /\ SS.dt = DtNone THEN Raise("TypeError")
  ELSE LET Ny == SS.D.sh[1]
           Nu == SS.B.sh[2]
           Nw == Len(wv)
           Eye == eye_as(SS.A)
           Y == FreqLoop(SS, Eye, wv, dlti, Nw)
       IN  IF IsErr(Eye) THEN Eye
           ELSE IF IsErr(Y) THEN Y
           ELSE [t |-> "ndarray", sh |-> <<Ny, Nu, Nw>>, err |-> "",
                 v |-> SeqOf([o \in 1..Ny |-> SeqOf([i \in 1..Nu |->
                         SeqOf([ii \in 1..Nw |-> Y.v[ii][o][i]], Nw)], Nu)], Ny)]

\* ss.freqresp(wv)
ss_freqresp(self, wv) == freqresp(self, wv, self.dt # DtNone)

\* the frequency sequences of length up to MaxNw
FreqSeqs == UNION {[1..n -> Freqs] : n \in 0..MaxNw}

InitFreq ==
  /\ heap = <<>>
  /\ models = <<>>
  /\ call = [op |-> "none"]

MethodFreqresp ==
  /\ call.op = "none"
  /\ \E tA \in SupportedTypes, tB \in SupportedTypes, tC \in SupportedTypes,
        tD \in SupportedTypes, s \in Seeds, Nx \in Dims, Nu \in Dims, Ny \in Dims,
        dt \in Dts, wv \in FreqSeqs :
       LET SS == ssInit(Gen(tA, s, Nx, Nx), Gen(tB, s + 1, Nx, Nu),
                        Gen(tC, s + 2, Ny, Nx), Gen(tD, s + 3, Ny, Nu), dt)
       IN  /\ call' = [op |-> "freqresp", SS |-> SS, wv |-> wv,
                       ret |-> ss_freqresp(SS, wv)]
           /\ UNCHANGED <<heap, models>>

NextFreq == MethodFreqresp

SpecFreq == InitFreq /\ [][NextFreq]_vars

\* the response of the model of the call with its four matrices dense
FreqDense == ss_freqresp(DenseSS(call.SS), call.wv)

\* C9: for each of the 16 dense/sparse choices for A, B, C, D and each
\* frequency sequence the all-dense model answers, ss.freqresp returns a dense
\* tensor of shape (outputs, inputs, Nw) with the values of the all-dense model
C9_FreqrespAllRepresentations ==
  (call.op = "freqresp" /\ FreqDense.t = "ndarray") =>
     /\ call.ret.t = "ndarray"
     /\ call.ret.sh = <<call.SS.outputs, call.SS.inputs, Len(call.wv)>>
     /\ call.ret.v = FreqDense.v

(***************************************************************************)
(* libss.series                                                            *)
(***************************************************************************)
\* the attributes of class ss
ss_attributes ==
  {"__init__", "check_types", "get_mats", "freqresp", "addGain", "scale"}

\* numpy.zeros((r, c))
zeros(r, c) == Arr("ndarray", <<r, c>>, [i \in 1..r |-> [j \in 1..c |-> Zero]])

\* A[r0:r0+rows, c0:c0+cols] = X on a numpy array A; a sparse X is no array
\* of numbers and the assignment raises
SetBlock(A, r0, c0, rows, cols, X) ==
  IF IsErr(A) THEN A
  ELSE IF IsErr(X) THEN X
  ELSE IF IsSparse(X) THEN Raise("TypeError")
  ELSE IF Rows(X) \notin {1, rows} \/ Cols(X) \notin {1, cols} THEN Raise("ValueError")
  ELSE Arr("ndarray", A.sh,
           [i \in 1..A.sh[1] |-> [j \in 1..A.sh[2] |->
              IF i > r0 /\ i <= r0 + rows /\ j > c0 /\ j <= c0 + cols
              THEN At(X, i - r0, j - c0) ELSE A.v[i][j]]])

\* numpy.concatenate((X, Y), axis) of 2-D arrays; sparse operands are
\* zero-dimensional objects to numpy
concatenate(X, Y, axis) ==
  IF IsErr(X) THEN X
  ELSE IF IsErr(Y) THEN Y
  ELSE IF IsSparse(X) \/ IsSparse(Y) THEN Raise("ValueError")
  ELSE IF NDim(X) # 2 \/ NDim(Y) # 2 THEN Raise("ValueError")
  ELSE IF axis = 0 THEN VStack(X, Y) ELSE HStack(X, Y)

\* series(SS01, SS02)
series(SS01, SS02) ==
  IF SS01.t # SS02.t THEN Raise("NameError")
  ELSE IF SS01.dt # SS02.dt THEN Raise("NameError")
  ELSE LET Nst01 == SS01.A.sh[1]
           Nst02 == SS02.A.sh[1]
           Nst == Nst01 + Nst02
           A0 == zeros(Nst, Nst)
           A1 == SetBlock(A0, 0, 0, Nst01, Nst01, SS01.A)
           A2 == SetBlock(A1, Nst01, Nst01, Nst02, Nst02, SS02.A)
           A == SetBlock(A2, Nst01, 0, Nst02, Nst01, dot(SS02.B, SS01.C, "None"))
           B == concatenate(SS01.B, dot(SS02.B, SS01.D, "None"), 0)
           C == concatenate(dot(SS02.D, SS01.C, "None"), SS02.C, 1)
           D == dot(SS02.D, SS01.D, "None")
       IN  IF IsErr(A) THEN A
           ELSE IF IsErr(B) THEN B
           ELSE IF IsErr(C) THEN C
           ELSE IF IsErr(D) THEN D
           ELSE IF "dlti" \notin ss_attributes THEN Raise("AttributeError")
           ELSE ssInit(A, B, C, D, SS01.dt)

InitSeries ==
  /\ heap = <<>>
  /\ models = <<>>
  /\ call = [op |-> "none"]

CallSeries ==
  /\ call.op = "none"
  /\ \E t1 \in SupportedTypes, t2 \in SupportedTypes, s \in Seeds,
        Nx1 \in Dims, Nu1 \in Dims, Ny1 \in Dims,
        Nx2 \in Dims, Nu2 \in Dims, Ny2 \in Dims, dt1 \in Dts, dt2 \in Dts :
       LET S1 == GenSS(t1, s + 1, Nx1, Nu1, Ny1, dt1)
           S2 == GenSS(t2, s + 2, Nx2, Nu2, Ny2, dt2)
       IN  /\ call' = [op |-> "series", S1 |-> S1, S2 |-> S2,
                       ret |-> series(S1, S2)]
           /\ UNCHANGED <<heap, models>>

NextSeries == CallSeries

SpecSeries == InitSeries /\ [][NextSeries]_vars

\* C10: series of two models with equal sample interval and outputs1 =
\* inputs2 returns a model of states1 + states2 states with
\* A = [[A1, 0], [B2.C1, A2]], B = [B1; B2.D1], C = [D2.C1, C2], D = D2.D1
\* and that sample interval
C10_SeriesFormula ==
  (/\ call.op = "series"
   /\ call.S1.dt = call.S2.dt
   /\ call.S1.outputs = call.S2.inputs) =>
     LET A1 == dense(call.S1.A)
         B1 == dense(call.S1.B)
         C1 == dense(call.S1.C)
         D1 == dense(call.S1.D)
         A2 == dense(call.S2.A)
         B2 == dense(call.S2.B)
         C2 == dense(call.S2.C)
         D2 == dense(call.S2.D)
     IN  /\ call.ret.t = "ss"
         /\ call.ret.states = call.S1.states + call.S2.states
         /\ call.ret.dt = call.S1.dt
         /\ dense(call.ret.A).v =
              Block22(A1, zeros(call.S1.states, call.S2.states), NpDot(B2, C1), A2).v
         /\ dense(call.ret.B).v = VStack(B1, NpDot(B2, D1)).v
         /\ dense(call.ret.C).v = HStack(NpDot(D2, C1), C2).v
         /\ dense(call.ret.D).v = NpDot(D2, D1).v

(***************************************************************************)
(* libss.join and libss.sum                                                *)
(***************************************************************************)
\* scipy.signal.StateSpace(A, B, C, D, dt=dt) of arrays and a numeric dt: the
\* discrete-time system of scipy, or ValueError for inconsistent shapes
StateSpace(A, B, C, D, dt) ==
  IF IsErr(A) THEN A
  ELSE IF IsErr(B) THEN B
  ELSE IF IsErr(C) THEN C
  ELSE IF IsErr(D) THEN D
  ELSE IF A.sh # <<A.sh[1], A.sh[1]>> \/ B.sh[1] # A.sh[1] \/ C.sh[2] # A.sh[1]
          \/ D.sh # <<C.sh[1], B.sh[2]>>
  THEN Raise("ValueError")
  ELSE [t |-> "StateSpaceDiscrete", A |-> A, B |-> B, C |-> C, D |-> D, dt |-> dt,
        states |-> A.sh[1], inputs |-> B.sh[2], outputs |-> C.sh[1], err |-> ""]

\* isinstance(X, np.ndarray)
IsArray(X) == X.t \in {"ndarray", "matrix"}

\* join(SS1, SS2)
join(SS1, SS2) ==
  IF IsArray(SS1) /\ IsArray(SS2)
  THEN Block22(SS1, zeros(SS1.sh[1], SS2.sh[2]), zeros(SS2.sh[1], SS1.sh[2]), SS2)
  ELSE IF IsArray(SS1) /\ SS2.t = "StateSpaceDiscrete"
  THEN StateSpace(SS2.A,
                  HStack(zeros(SS2.A.sh[1], SS1.sh[2]), SS2.B),
                  VStack(zeros(SS1.sh[1], SS2.A.sh[1]), SS2.C),
                  Block22(SS1, zeros(SS1.sh[1], SS2.inputs),
                          zeros(SS2.outputs, SS1.sh[2]), SS2.D),
                  SS2.dt)
  ELSE IF SS1.t = "StateSpaceDiscrete" /\ IsArray(SS2)
  THEN StateSpace(SS1.A,
                  HStack(SS1.B, zeros(SS1.A.sh[1], SS2.sh[2])),
                  VStack(SS1.C, zeros(SS2.sh[1], SS1.A.sh[1])),
                  Block22(SS1.D, zeros(SS1.outputs, SS2.sh[2]),
                          zeros(SS2.sh[1], SS1.inputs), SS2),
                  SS1.dt)
  ELSE IF SS1.t = "StateSpaceDiscrete" /\ SS2.t = "StateSpaceDiscrete"
  THEN IF SS1.dt # SS2.dt THEN Raise("AssertionError")
       ELSE StateSpace(
              Block22(SS1.A, zeros(SS1.A.sh[1], SS2.A.sh[1]),
                      zeros(SS2.A.sh[1], SS1.A.sh[1]), SS2.A),
              Block22(SS1.B, zeros(SS1.A.sh[1], SS2.inputs),
                      zeros(SS2.A.sh[1], SS1.inputs), SS2.B),
              Block22(SS1.C, zeros(SS1.outputs, SS2.A.sh[1]),
                      zeros(SS2.outputs, SS1.A.sh[1]), SS2.C),
              Block22(SS1.D, zeros(SS1.outputs, SS2.inputs),
                      zeros(SS2.outputs, SS1.inputs), SS2.D),
              SS1.dt)
  ELSE Raise("NameError")

\* sum(SS1, SS2); the attribute dt of an array does not exist
sum(SS1, SS2) ==
  IF IsArray(SS1) /\ IsArray(SS2) THEN Plus(SS1, SS2)
  ELSE IF IsArray(SS1) /\ SS2.t = "ss"
  THEN StateSpace(SS2.A, SS2.B, SS2.C, Plus(SS2.D, SS1), SS2.dt)
  ELSE IF SS1.t = "ss" /\ IsArray(SS2)
  THEN IF IsErr(Plus(SS1.D, SS2)) THEN Plus(SS1.D, SS2)
       ELSE Raise("AttributeError")
  ELSE IF SS1.t = "ss" /\ SS2.t = "ss"
  THEN IF SS1.dt # SS2.dt THEN Raise("AssertionError")
       ELSE StateSpace(
              Block22(SS1.A, zeros(SS1.A.sh[1], SS2.A.sh[1]),
                      zeros(SS2.A.sh[1], SS1.A.sh[1]), SS2.A),
              VStack(SS1.B, SS2.B),
              HStack(SS1.C, SS2.C),
              Plus(SS1.D, SS2.D),
              SS1.dt)
  ELSE Raise("NameError")

\* the operands passed: a dense gain, a model of class ss, a scipy system
OperandKinds == {"ndarray", "ss", "StateSpaceDiscrete"}

\* sample intervals 0.2 and 0.4
DtsJoin == {<<1, 5, 0>>, <<2, 5, 0>>}

Operand(kind, s, Nx, Nu, Ny, dt) ==
  IF kind = "ndarray" THEN Gen("ndarray", s, Ny, Nu)
  ELSE IF kind = "ss" THEN GenSS("ndarray", s, Nx, Nu, Ny, dt)
  ELSE StateSpace(Gen("ndarray", s, Nx, Nx), Gen("ndarray", s + 1, Nx, Nu),
                  Gen("ndarray", s + 2, Ny, Nx), Gen("ndarray", s + 3, Ny, Nu), dt)

InitJoin ==
  /\ heap = <<>>
  /\ models = <<>>
  /\ call = [op |-> "none"]

CallJoin ==
  /\ call.op = "none"
  /\ \E k1 \in OperandKinds, k2 \in OperandKinds, s \in Seeds,
        Nx1 \in Dims, Nu1 \in Dims, Ny1 \in Dims,
        Nx2 \in Dims, Nu2 \in Dims, Ny2 \in Dims, dt2 \in DtsJoin :
       /\ call' = [op |-> "join",
                   S1 |-> Operand(k1, s, Nx1, Nu1, Ny1, <<1, 5, 0>>),
                   S2 |-> Operand(k2, s + 1, Nx2, Nu2, Ny2, dt2),
                   ret |-> join(Operand(k1, s, Nx1, Nu1, Ny1, <<1, 5, 0>>),
                                Operand(k2, s + 1, Nx2, Nu2, Ny2, dt2))]
       /\ UNCHANGED <<heap, models>>

CallSum ==
  /\ call.op = "none"
  /\ \E k1 \in OperandKinds, k2 \in OperandKinds, s \in Seeds,
        Nx1 \in Dims, Nu1 \in Dims, Ny1 \in Dims,
        Nx2 \in Dims, Nu2 \in Dims, Ny2 \in Dims, dt2 \in DtsJoin :
       /\ call' = [op |-> "sum",
                   S1 |-> Operand(k1, s, Nx1, Nu1, Ny1, <<1, 5, 0>>),
                   S2 |-> Operand(k2, s + 1, Nx2, Nu2, Ny2, dt2),
                   ret |-> sum(Operand(k1, s, Nx1, Nu1, Ny1, <<1, 5, 0>>),
                               Operand(k2, s + 1, Nx2, Nu2, Ny2, dt2))]
       /\ UNCHANGED <<heap, models>>

NextJoin == CallJoin \/ CallSum

SpecJoin == InitJoin /\ [][NextJoin]_vars

\* the operand is a dense gain or a model of class ss
GainOrModel(X) == X.t \in {"ndarray", "ss"}

\* the numbers of states, inputs and outputs of an operand
StatesOf(X) == IF X.t = "ndarray" THEN 0 ELSE X.states

InputsOf(X) == IF X.t = "ndarray" THEN X.sh[2] ELSE X.inputs

OutputsOf(X) == IF X.t = "ndarray" THEN X.sh[1] ELSE X.outputs

\* the feedthrough of an operand: the gain itself, or D of the model
GainOf(X) == IF X.t = "ndarray" THEN X ELSE X.D

\* C14: join of two operands, each a dense gain or a model of class ss (equal
\* sample intervals when both are models), succeeds and returns the
\* block-diagonal composition: inputs and outputs added, states the sum of the
\* models' states, feedthrough diag(D1, D2) with zero cross blocks
C14_JoinFourCombinations ==
  (/\ call.op = "join"
   /\ GainOrModel(call.S1) /\ GainOrModel(call.S2)
   /\ (call.S1.t = "ss" /\ call.S2.t = "ss") => call.S1.dt = call.S2.dt) =>
     /\ call.ret.t # "raise"
     /\ InputsOf(call.ret) = InputsOf(call.S1) + InputsOf(call.S2)
     /\ OutputsOf(call.ret) = OutputsOf(call.S1) + OutputsOf(call.S2)
     /\ StatesOf(call.ret) = StatesOf(call.S1) + StatesOf(call.S2)
     /\ GainOf(call.ret).v = Diag(GainOf(call.S1), GainOf(call.S2)).v

\* the operand of the call that is a model, when exactly one is
ModelOf(X, Y) == IF X.t = "ss" THEN X ELSE Y

\* C15: sum of two operands with equal input and output counts, each a dense
\* gain or a model of class ss, succeeds: gain + gain is K1 + K2; model + gain
\* in either order keeps the model's A, B, C and sample interval with
\* D = D_model + K; model + model (equal sample intervals) is A = diag(A1, A2),
\* B = [B1; B2], C = [C1, C2], D = D1 + D2
C15_SumFourCombinations ==
  (/\ call.op = "sum"
   /\ GainOrModel(call.S1) /\ GainOrModel(call.S2)
   /\ InputsOf(call.S1) = InputsOf(call.S2)
   /\ OutputsOf(call.S1) = OutputsOf(call.S2)
   /\ (call.S1.t = "ss" /\ call.S2.t = "ss") => call.S1.dt = call.S2.dt) =>
     /\ call.ret.t # "raise"
     /\ GainOf(call.ret).v = Plus(GainOf(call.S1), GainOf(call.S2)).v
     /\ (call.S1.t = "ndarray" /\ call.S2.t = "ndarray") => call.ret.t = "ndarray"
     /\ (call.S1.t = "ss") # (call.S2.t = "ss") =>
          /\ call.ret.A = ModelOf(call.S1, call.S2).A
          /\ call.ret.B = ModelOf(call.S1, call.S2).B
          /\ call.ret.C = ModelOf(call.S1, call.S2).C
          /\ call.ret.dt = ModelOf(call.S1, call.S2).dt
     /\ (call.S1.t = "ss" /\ call.S2.t = "ss") =>
          /\ call.ret.A = Diag(call.S1.A, call.S2.A)
          /\ call.ret.B = VStack(call.S1.B, call.S2.B)
          /\ call.ret.C = HStack(call.S1.C, call.S2.C)
          /\ call.ret.dt = call.S1.dt

(***************************************************************************)
(* libss.addGain (the free function) on ss objects                         *)
(***************************************************************************)
\* an operand of numpy.block: a sparse matrix is a single cell holding an
\* object, not numbers
ObjectCell(M) ==
  IF IsErr(M) THEN M
  ELSE IF IsSparse(M) THEN Arr("ndarray", <<1, 1>>, <<<<NaN>>>>)
  ELSE M

\* numpy.block([X, Y])
block(X, Y) == HStack(ObjectCell(X), ObjectCell(Y))

\* the end of addGain: ss(A, B, C, D, dt=SShere.dt) on the arrays a, b, c, d
\* of h, after the first exception raised while they were computed
addGain_return(h, ms, a, b, c, d, dt) ==
  IF IsErr(h[b]) THEN Fail(h, ms, h[b].err)
  ELSE IF IsErr(h[c]) THEN Fail(h, ms, h[c].err)
  ELSE IF IsErr(h[d]) THEN Fail(h, ms, h[d].err)
  ELSE IF ssInitErr(h[a], h[b], h[c], h[d]) # ""
  THEN Fail(h, ms, ssInitErr(h[a], h[b], h[c], h[d]))
  ELSE Ok(h, Append(ms, [A |-> a, B |-> b, C |-> c, D |-> d, dt |-> dt,
                         states |-> h[b].sh[1], inputs |-> h[b].sh[2],
                         outputs |-> h[c].sh[1]]),
          Len(ms) + 1)

\* addGain(SShere, Kmat, where): the new model refers to the arrays of
\* SShere it takes over (A=SShere.A, ...) and to the arrays it computes
addGain(h, ms, m, Kmat, where) ==
  IF where \notin {"in", "out", "parallel-down", "parallel-up"}
  THEN Fail(h, ms, "AssertionError")
  ELSE IF where = "in"
  THEN addGain_return(h \o <<MethodDot(h[ms[m].B], Kmat), MethodDot(h[ms[m].D], Kmat)>>,
                      ms, ms[m].A, Len(h) + 1, ms[m].C, Len(h) + 2, ms[m].dt)
  ELSE IF where = "out"
  THEN addGain_return(h \o <<MethodDot(Kmat, h[ms[m].C]), MethodDot(Kmat, h[ms[m].D])>>,
                      ms, ms[m].A, ms[m].B, Len(h) + 1, Len(h) + 2, ms[m].dt)
  ELSE IF where = "parallel-down"
  THEN addGain_return(h \o <<block(h[ms[m].B], zeros(h[ms[m].B].sh[1], Kmat.sh[2])),
                             block(h[ms[m].D], Kmat)>>,
                      ms, ms[m].A, Len(h) + 1, ms[m].C, Len(h) + 2, ms[m].dt)
  ELSE addGain_return(h \o <<block(zeros(h[ms[m].B].sh[1], Kmat.sh[2]), h[ms[m].B]),
                             block(Kmat, h[ms[m].D])>>,
                      ms, ms[m].A, Len(h) + 1, ms[m].C, Len(h) + 2, ms[m].dt)

\* SS = ss(A, B, C, D, dt) on four new arrays of one type
NewSource ==
  /\ models = <<>>
  /\ \E t \in SupportedTypes, s \in Dims, i \in Dims, o \in Dims, dt \in Dts :
       Commit(ss_new(heap, models, Gen(t, 1, s, s), Gen(t, 2, s, i), Gen(t, 3, o, s),
                     Gen(t, 1, o, i), dt),
              [op |-> "ss", err |-> "", ret |-> 0, n |-> 0], 0)

\* SSnew = addGain(SS, K, where)
FuncAddGain ==
  /\ Len(models) = 1
  /\ call.op = "ss"
  /\ \E tk \in SupportedTypes, r \in Dims, c \in Dims,
        where \in {"in", "out", "parallel-down", "parallel-up", "parallel"} :
       Commit(addGain(heap, models, 1, Gen(tk, 2, r, c), where),
              [op |-> "addGain", self |-> 1, K |-> Gen(tk, 2, r, c), where |-> where,
               err |-> "", ret |-> 0, n |-> 0], 1)

\* SSnew.scale(input_scal, output_scal, state_scal)
ScaleNew ==
  /\ Len(models) = 2
  /\ call.op = "addGain"
  /\ \E a \in ScalArgs(models[2]) :
       Commit(ss_scale(heap, models, 2, a[1], a[2], a[3]),
              [op |-> "ss.scale", self |-> 2, input_scal |-> a[1],
               output_scal |-> a[2], state_scal |-> a[3], byref |-> TRUE,
               err |-> "", ret |-> 0, n |-> 0], 2)

\* SSnew.addGain(K, where)
AddGainNew ==
  /\ Len(models) = 2
  /\ call.op = "addGain"
  /\ \E tk \in SupportedTypes, r \in Dims, c \in Dims, where \in {"in", "out"} :
       Commit(ss_addGain(heap, models, 2, Gen(tk, 3, r, c), where),
              [op |-> "ss.addGain", self |-> 2, K |-> Gen(tk, 3, r, c), where |-> where,
               err |-> "", ret |-> 0, n |-> 0], 2)

NextGain == NewSource \/ FuncAddGain \/ ScaleNew \/ AddGainNew

SpecGain == InitSS /\ [][NextGain]_vars

\* the gain fits the model for the mode
GainFits(M, K, where) ==
  IF where = "in" THEN K.sh[1] = M.inputs
  ELSE IF where = "out" THEN K.sh[2] = M.outputs
  ELSE K.sh[1] = M.outputs

\* the matrices (dense) the four modes are to give for the model M and gain K
GainB(M, K, where) ==
  IF where = "in" THEN NpDot(dense(M.B), dense(K))
  ELSE IF where = "out" THEN dense(M.B)
  ELSE IF where = "parallel-down" THEN HStack(dense(M.B), zeros(M.states, K.sh[2]))
  ELSE HStack(zeros(M.states, K.sh[2]), dense(M.B))

GainC(M, K, where) ==
  IF where = "out" THEN NpDot(dense(K), dense(M.C)) ELSE dense(M.C)

GainD(M, K, where) ==
  IF where = "in" THEN NpDot(dense(M.D), dense(K))
  ELSE IF where = "out" THEN NpDot(dense(K), dense(M.D))
  ELSE IF where = "parallel-down" THEN HStack(dense(M.D), dense(K))
  ELSE HStack(dense(K), dense(M.D))

\* C16: addGain(SS, K, where) returns a new model with the sample interval of
\* SS and, for 'in', (A, B.K, C, D.K); for 'out', (A, B, K.C, K.D); for
\* 'parallel-down', (A, [B, 0], C, [D, K]); for 'parallel-up',
\* (A, [0, B], C, [K, D]); any other where raises; no field of SS changes
C16_FreeAddGainModes ==
  [][ call'.op = "addGain" =>
        \A c \in {call'} :
        \A SS \in {ModelValue(heap, models, 1)} :
          /\ ModelValue(heap', models', 1) = SS
          /\ c.where \notin {"in", "out", "parallel-down", "parallel-up"} =>
               (c.err # "" /\ Len(models') = 1)
          /\ (/\ c.where \in {"in", "out", "parallel-down", "parallel-up"}
              /\ GainFits(SS, c.K, c.where)) =>
               /\ c.err = "" /\ c.ret = 2 /\ Len(models') = 2
               /\ \A SSnew \in {ModelValue(heap', models', 2)} :
                    /\ SSnew.dt = SS.dt
                    /\ SameValue(SSnew.A, SS.A)
                    /\ SameValue(SSnew.B, GainB(SS, c.K, c.where))
                    /\ SameValue(SSnew.C, GainC(SS, c.K, c.where))
                    /\ SameValue(SSnew.D, GainD(SS, c.K, c.where)) ]_vars

\* C20: after SSnew = addGain(SS, K, where), SSnew.scale(...) and
\* SSnew.addGain(...) leave the A, B, C and D of the source model SS unchanged
C20_CompositionByValue ==
  [][ (/\ Len(models) = 2
       /\ call'.op \in {"ss.scale", "ss.addGain"}
       /\ call'.self = 2) =>
        /\ heap'[models'[1].A] = heap[models[1].A]
        /\ heap'[models'[1].B] = heap[models[1].B]
        /\ heap'[models'[1].C] = heap[models[1].C]
        /\ heap'[models'[1].D] = heap[models[1].D] ]_vars

(***************************************************************************)
(* libss.SSconv                                                            *)
(***************************************************************************)
\* the tuple (A, B, C, D) a call returns, after the first exception raised
\* while its entries were computed
SSconv_outs(A, B, C, D) ==
  IF IsErr(A) THEN A
  ELSE IF IsErr(B) THEN B
  ELSE IF IsErr(C) THEN C
  ELSE IF IsErr(D) THEN D
  ELSE [t |-> "tuple", A |-> A, B |-> B, C |-> C, D |-> D, err |-> ""]

\* the delay step with Bm1 ignored
SSconv_delay_ignored(A, B0, C, Bh, Dh, Bm1) ==
  IF IsErr(Bh) THEN Bh
  ELSE IF IsErr(Dh) THEN Dh
  ELSE SSconv_outs(A, Bh, C, Dh)

\* "Account for u^{n-1} terms (delay)": Bh and Dh are the matrices of the
\* prediction step
SSconv_delay(A, B0, C, Bh, Dh, Bm1) ==
  IF IsErr(Bh) THEN Bh
  ELSE IF IsErr(Dh) THEN Dh
  ELSE IF Bm1 = None THEN SSconv_outs(A, Bh, C, Dh)
  ELSE SSconv_outs(
         VStack(block(A, Bm1), block(zeros(B0.sh[2], A.sh[1]), zeros(B0.sh[2], B0.sh[2]))),
         VStack(ObjectCell(Bh), eye_as(zeros(B0.sh[2], B0.sh[2]))),
         block(C, zeros(C.sh[1], B0.sh[2])),
         Dh)

\* SSconv with the prediction term left out of D
SSconv_keepD(A, B0, B1, C, D, Bm1) ==
  SSconv_delay(A, B0, C, Plus(B0, dot(A, B1, "None")), D, Bm1)

\* SSconv(A, B0, B1, C, D, Bm1)
SSconv(A, B0, B1, C, D, Bm1) ==
  SSconv_delay(A, B0, C, Plus(B0, dot(A, B1, "None")), Plus(D, dot(C, B1, "None")), Bm1)

InitConv ==
  /\ heap = <<>>
  /\ models = <<>>
  /\ call = [op |-> "none"]

\* SSconv on matrices of a system with Nx states, Nu inputs, Ny outputs;
\* tm = "None" when Bm1 is omitted
CallSSconv ==
  /\ call.op = "none"
  /\ \E tA \in SupportedTypes, tB0 \in SupportedTypes, tB1 \in SupportedTypes,
        tC \in SupportedTypes, tm \in SupportedTypes \cup {"None"},
        s \in Seeds, Nx \in Dims, Nu \in Dims, Ny \in Dims :
       /\ call' = [op |-> "SSconv",
                   A |-> Gen(tA, s + 1, Nx, Nx), B0 |-> Gen(tB0, s + 2, Nx, Nu),
                   B1 |-> Gen(tB1, s, Nx, Nu), C |-> Gen(tC, s + 3, Ny, Nx),
                   D |-> Gen(tC, s + 4, Ny, Nu),
                   Bm1 |-> IF tm = "None" THEN None ELSE Gen(tm, s + 2, Nx, Nu),
                   ret |-> SSconv(Gen(tA, s + 1, Nx, Nx), Gen(tB0, s + 2, Nx, Nu),
                                  Gen(tB1, s, Nx, Nu), Gen(tC, s + 3, Ny, Nx),
                                  Gen(tC, s + 4, Ny, Nu),
                                  IF tm = "None" THEN None ELSE Gen(tm, s + 2, Nx, Nu))]
       /\ UNCHANGED <<heap, models>>

NextConv == CallSSconv

SpecConv == InitConv /\ [][NextConv]_vars

\* the call with every operand converted to a numpy array
ConvDense ==
  SSconv(dense(call.A), dense(call.B0), dense(call.B1), dense(call.C), dense(call.D),
         IF call.Bm1 = None THEN None ELSE dense(call.Bm1))

\* C18: without a delay term SSconv returns (A, B0 + A.B1, C, D + C.B1), A
\* and C being the operands themselves; the values are those of the all-dense
\* call for every dense or sparse choice of A, B0, B1, and ss accepts the
\* four matrices
C18_SSconvPrediction ==
  (call.op = "SSconv" /\ call.Bm1 = None) =>
     /\ call.ret.t = "tuple"
     /\ call.ret.A = call.A
     /\ call.ret.C = call.C
     /\ SameValue(call.ret.B,
                  Plus(dense(call.B0), NpDot(dense(call.A), dense(call.B1))))
     /\ SameValue(call.ret.D,
                  Plus(dense(call.D), NpDot(dense(call.C), dense(call.B1))))
     /\ SameValue(call.ret.B, ConvDense.B)
     /\ SameValue(call.ret.D, ConvDense.D)
     /\ ssInit(call.ret.A, call.ret.B, call.ret.C, call.ret.D, <<1, 5, 0>>).t = "ss"

\* the third scenario of test_SSconv: A and B0 sparse, B1 dense and not zero
C18_Witness ==
  /\ call.op = "SSconv" /\ call.Bm1 = None
  /\ call.A.t = "csc_matrix" /\ call.B0.t = "csc_matrix" /\ call.B1.t = "ndarray"
  /\ call.A.sh = <<2, 2>> /\ call.B1.sh = <<2, 2>> /\ ~AllZero(call.B1)
  /\ call.ret.t = "tuple"
  /\ call.ret.D # call.D

\* a delay term is passed
WithDelay == call.op = "SSconv" /\ call.Bm1 # None

\* C19 as stated: with a delay term the returned system has twice the states
\* of A, whatever the numbers of states and inputs
C19_SSconvDelayDoubles ==
  (WithDelay /\ call.ret.t = "tuple") => call.ret.A.sh[1] = 2 * call.A.sh[1]

\* C19, amended: with a delay term the returned system has states(A) + inputs
\* states whenever the call returns, and for numpy arrays A, C, Bm1 it returns
\* AA = [[A, Bm1], [0, 0]], BB = [[Bh], [I]], CC = [C, 0], DD = Dh, which ss
\* accepts: the auxiliary state has one entry per input
C19_SSconvDelayAugments ==
  WithDelay =>
     /\ call.ret.t = "tuple" =>
          call.ret.A.sh = <<call.A.sh[1] + call.B0.sh[2], call.A.sh[1] + call.B0.sh[2]>>
     /\ (call.A.t = "ndarray" /\ call.C.t = "ndarray" /\ call.Bm1.t = "ndarray") =>
          /\ call.ret.t = "tuple"
          /\ call.ret.A = Block22(call.A, call.Bm1, zeros(call.B0.sh[2], call.A.sh[1]),
                                  zeros(call.B0.sh[2], call.B0.sh[2]))
          /\ call.ret.B = VStack(Plus(dense(call.B0), NpDot(call.A, dense(call.B1))),
                                 eye_as(zeros(call.B0.sh[2], call.B0.sh[2])))
          /\ call.ret.C = HStack(call.C, zeros(call.C.sh[1], call.B0.sh[2]))
          /\ SameValue(call.ret.D, Plus(dense(call.D), NpDot(call.C, dense(call.B1))))
          /\ ssInit(call.ret.A, call.ret.B, call.ret.C, call.ret.D, <<1, 5, 0>>).states
               = call.A.sh[1] + call.B0.sh[2]

\* one state and two inputs give three states
C19_Witness ==
  /\ WithDelay
  /\ call.A.t = "ndarray" /\ call.C.t = "ndarray" /\ call.Bm1.t = "ndarray"
  /\ call.A.sh = <<1, 1>> /\ call.B0.sh = <<1, 2>>
  /\ call.ret.t = "tuple" /\ call.ret.A.sh = <<3, 3>>

====
